---------------------------- MODULE Spec2Model ----------------------------
(***************************************************************************)
(* A model of the MermaidVibes component (components/MermaidRenderer):     *)
(* diagram-source preprocessing, the setup effect (actor images, theme,    *)
(* interactivity, SVG enhancement, particle scheduling), the animation     *)
(* frame loop and its cancellation, and the delivery of click and hover    *)
(* events.                                                                 *)
(*                                                                         *)
(* Time is in milliseconds, as Date.now() gives it.  Path lengths are      *)
(* whole numbers of user units.  A source text is a sequence of tokens:    *)
(* the literals "participant" and "img:", the blank " ", the line break    *)
(* "NL", and single characters.                                            *)
(***************************************************************************)
EXTENDS Integers, Sequences, FiniteSets, TLC

(***************************************************************************)
(* Bounds of the model.                                                    *)
(***************************************************************************)
\* the clock advances in steps of FrameStep milliseconds
FrameStep == 1000
\* the clock stops at MaxTime milliseconds
MaxTime == 6000
\* the setup effect runs at most MaxSetups times in one behaviour
MaxSetups == 2
\* at most MaxPending renderDiagram calls are in flight at once
MaxPending == 1
\* a source text given to preprocessChart holds at most MaxSrcLen tokens
MaxSrcLen == 6

(***************************************************************************)
(* PARTICLE_CONFIG (constants.ts).                                         *)
(***************************************************************************)
particleCount == 1
minDuration == 2000
maxDuration == 3500
durationMultiplier == 15

\* an optional string: undefined, or a string (the empty one included)
UNDEFINED == [some |-> FALSE, text |-> <<>>]
Some(text) == [some |-> TRUE, text |-> text]

Max(a, b) == IF a >= b THEN a ELSE b
Min(a, b) == IF a <= b THEN a ELSE b

\* Exact naturals beyond the machine integers: a number below 10^16 is the
\* tuple of its four digits to the base 10000, lowest first.
Limbs(n) == <<n % 10000, (n \div 10000) % 10000, n \div 100000000, 0>>

\* a * k, for a machine integer k up to 200000
BigTimes(a, k) ==
  LET x1 == a[1] * k
      x2 == a[2] * k + x1 \div 10000
      x3 == a[3] * k + x2 \div 10000
      x4 == a[4] * k + x3 \div 10000
  IN <<x1 % 10000, x2 % 10000, x3 % 10000, x4 % 10000>>

\* a - b, for a >= b
BigMinus(a, b) ==
  LET y1 == a[1] - b[1]
      y2 == a[2] - b[2] - (IF y1 < 0 THEN 1 ELSE 0)
      y3 == a[3] - b[3] - (IF y2 < 0 THEN 1 ELSE 0)
      y4 == a[4] - b[4] - (IF y3 < 0 THEN 1 ELSE 0)
  IN <<(y1 + 10000) % 10000, (y2 + 10000) % 10000, (y3 + 10000) % 10000,
       (y4 + 10000) % 10000>>

\* n * n * n, for n up to 46340
Cube(n) == BigTimes(Limbs(n * n), n)

(***************************************************************************)
(* Source texts and preprocessChart.                                       *)
(***************************************************************************)
KW == "participant"
IMG == "img:"
SP == " "
NL == "NL"

\* the regular expression's \s
IsSpace(t) == t \in {SP, NL}

\* the end of the longest run of tokens satisfying the class, starting at
\* position i; i - 1 when the run is empty
RECURSIVE RunEnd(_, _, _)
RunEnd(s, i, space) ==
  IF i <= Len(s) /\ (IsSpace(s[i]) = space) THEN RunEnd(s, i + 1, space) ELSE i - 1

\* the end of the longest run of tokens other than the line break ([^\n]+)
RECURSIVE LineEnd(_, _)
LineEnd(s, i) ==
  IF i <= Len(s) /\ s[i] # NL THEN LineEnd(s, i + 1) ELSE i - 1

\* String.prototype.trim on a token sequence
RECURSIVE trim(_)
trim(s) ==
  IF s = <<>> THEN s
  ELSE IF IsSpace(s[1]) THEN trim(Tail(s))
  ELSE IF IsSpace(s[Len(s)]) THEN trim(SubSeq(s, 1, Len(s) - 1))
  ELSE s

\* Map.prototype.set
MapSet(m, k, v) == [x \in (DOMAIN m) \cup {k} |-> IF x = k THEN v ELSE m[x]]
EmptyMap == [x \in {} |-> <<>>]

\* One attempt of /participant\s+img:([^\s]+)\s+([^\n]+)/ at position i.
\* Greedy quantifiers with backtracking: \s+ before img: and [^\s]+ must take
\* their whole run; the \s+ before the name gives blanks back only when the
\* source ends right after the run.
MatchAt(s, i) ==
  LET w1 == RunEnd(s, i + 1, TRUE)
      l0 == w1 + 2
      l1 == RunEnd(s, l0, FALSE)
      w2 == RunEnd(s, l1 + 1, TRUE)
      \* positions at which the name may start after giving blanks back
      back == {q \in (l1 + 2)..w2 : s[q] # NL}
      n0 == IF w2 < Len(s) THEN w2 + 1
            ELSE IF back # {} THEN CHOOSE q \in back : \A r \in back : r <= q
            ELSE 0
      ok == /\ i <= Len(s) /\ s[i] = KW
            /\ w1 >= i + 1
            /\ w1 + 1 <= Len(s) /\ s[w1 + 1] = IMG
            /\ l1 >= l0
            /\ w2 >= l1 + 1
            /\ n0 # 0
  IN IF ok
     THEN [ok |-> TRUE, imgPath |-> SubSeq(s, l0, l1),
           actorName |-> SubSeq(s, n0, LineEnd(s, n0)), end |-> LineEnd(s, n0)]
     ELSE [ok |-> FALSE, imgPath |-> <<>>, actorName |-> <<>>, end |-> i]

\* chart.replace(regex, callback) with the g flag: leftmost matches, left to right
RECURSIVE ReplaceFrom(_, _, _, _)
ReplaceFrom(s, i, cleaned, mappings) ==
  IF i > Len(s) THEN [cleanedChart |-> cleaned, imageMappings |-> mappings]
  ELSE LET m == MatchAt(s, i)
       IN IF m.ok
          THEN ReplaceFrom(s, m.end + 1, cleaned \o <<KW, SP>> \o m.actorName,
                           MapSet(mappings, trim(m.actorName), m.imgPath))
          ELSE ReplaceFrom(s, i + 1, Append(cleaned, s[i]), mappings)

preprocessChart(chart) == ReplaceFrom(chart, 1, <<>>, EmptyMap)


(***************************************************************************)
(* The graphics the layout engine (mermaid.render, an external             *)
(* collaborator) produces for the chart sources of the model.  An element  *)
(* is a record: tag, class list, parent (0: the svg root), own text,       *)
(* getTotalLength(), id, and the centre of its bounding box.  Elements     *)
(* are numbered in document order.                                         *)
(***************************************************************************)
El(tag, cls, parent, txt, len, id, x, y) ==
  [tag |-> tag, cls |-> cls, parent |-> parent, txt |-> txt, len |-> len,
   id |-> id, x |-> x, y |-> y]

\* graph TD: two links, one edge label, a labelled node and a node without text
GraphicFlow ==
  << El("g", {"edgePaths"}, 0, <<>>, 0, "", 0, 0),
     El("path", {"flowchart-link"}, 1, <<>>, 100, "", 100, 100),
     El("path", {"flowchart-link"}, 1, <<>>, 200, "", 100, 500),
     El("g", {"edgeLabels"}, 0, <<>>, 0, "", 0, 0),
     El("g", {"edgeLabel"}, 4, <<>>, 0, "", 120, 110),
     El("text", {}, 5, <<"Yes">>, 0, "", 120, 110),
     El("g", {"nodes"}, 0, <<>>, 0, "", 0, 0),
     El("g", {"node"}, 7, <<>>, 0, "", 0, 0),
     El("rect", {}, 8, <<>>, 0, "", 0, 0),
     El("text", {"nodeLabel"}, 8, <<"Start", SP, "Process">>, 0, "", 0, 0),
     El("g", {"node"}, 7, <<>>, 0, "", 0, 0),
     El("circle", {}, 11, <<>>, 0, "", 0, 0),
     El("marker", {}, 0, <<>>, 0, "flowchart-pointEnd", 0, 0),
     El("path", {}, 13, <<>>, 10, "", 0, 0) >>

\* sequenceDiagram: actors A and B with their lifelines, a solid message
\* (messageLine0) and a dashed reply (messageLine1)
GraphicSeq ==
  << El("g", {}, 0, <<>>, 0, "", 0, 0),
     El("line", {"actor-line"}, 1, <<>>, 400, "", 0, 0),
     El("rect", {"actor"}, 1, <<>>, 0, "", 0, 0),
     El("text", {"actor"}, 1, <<"A">>, 0, "", 0, 0),
     El("g", {}, 0, <<>>, 0, "", 0, 0),
     El("line", {"actor-line"}, 5, <<>>, 400, "", 0, 0),
     El("rect", {"actor"}, 5, <<>>, 0, "", 0, 0),
     El("text", {"actor"}, 5, <<"B">>, 0, "", 0, 0),
     El("line", {"messageLine0"}, 0, <<>>, 300, "", 200, 100),
     El("text", {"messageText"}, 0, <<"hi">>, 0, "", 200, 90),
     El("line", {"messageLine1"}, 0, <<>>, 300, "", 200, 200),
     El("text", {"messageText"}, 0, <<"ok">>, 0, "", 200, 190),
     El("marker", {}, 0, <<>>, 0, "arrowhead", 0, 0),
     El("path", {}, 13, <<>>, 10, "", 0, 0) >>

Graphic(gid) ==
  CASE gid = "flow" -> GraphicFlow
    [] gid = "seq" -> GraphicSeq
    [] OTHER -> <<>>

\* the chart sources a caller passes as the chart prop
ChartSource(c) ==
  CASE c = "flow" -> <<"f">>
    [] c = "seq" -> <<KW, SP, IMG, "u", SP, "A", NL, KW, SP, "B", NL, "m">>
    [] OTHER -> <<"x">>

Charts == {"flow", "seq", "bad"}

\* mermaid.render: the graphic of a source it can parse, "error" (a rejected
\* promise) for any other source; an img: token is no diagram syntax
MermaidRender(cleanedChart) ==
  IF cleanedChart = <<"f">> THEN "flow"
  ELSE IF cleanedChart = <<KW, SP, "A", NL, KW, SP, "B", NL, "m">> THEN "seq"
  ELSE "error"

(***************************************************************************)
(* DOM queries on a graphic g.                                             *)
(***************************************************************************)
Elems(g) == 1..Len(g)

RECURSIVE Anc(_, _)
\* the proper ancestors of e below the svg root
Anc(g, e) == IF g[e].parent = 0 THEN {} ELSE {g[e].parent} \cup Anc(g, g[e].parent)

\* the descendants of e; of the svg root when e = 0
Desc(g, e) == IF e = 0 THEN Elems(g) ELSE {d \in Elems(g) : e \in Anc(g, d)}

Children(g, e) == {d \in Elems(g) : g[d].parent = e}

\* a set of element numbers in document order
RECURSIVE InOrder(_)
InOrder(S) ==
  IF S = {} THEN <<>>
  ELSE LET m == CHOOSE x \in S : \A y \in S : x <= y IN <<m>> \o InOrder(S \ {m})

First(S) == CHOOSE x \in S : \A y \in S : x <= y

\* ".c tag": an element of that tag below an element of class c
Below(g, c, tags) ==
  {e \in Elems(g) : g[e].tag \in tags /\ \E a \in Anc(g, e) : c \in g[a].cls}

WithClass(g, c) == {e \in Elems(g) : c \in g[e].cls}

\* Node.textContent: the texts of the element and its descendants, in order
RECURSIVE Concat(_, _)
Concat(g, es) == IF es = <<>> THEN <<>> ELSE g[Head(es)].txt \o Concat(g, Tail(es))
textContent(g, e) == Concat(g, InOrder(Desc(g, e) \cup (IF e = 0 THEN {} ELSE {e})))

(***************************************************************************)
(* particleUtils.ts: durations, particle records, the per-frame update.    *)
(* A number that need not be whole (an opacity, a progress) is a pair      *)
(* <<numerator, denominator>>.  A particle element carries its opacity and *)
(* cx attributes; cx holds the local progress <<p, d>> whose eased value   *)
(* times the path length is the arc length of the point last written       *)
(* (<<0, 1>>: the initial cx="0").  A loop record holds the closure of     *)
(* startParticleAnimation (animations, sequenceStartTime,                  *)
(* totalSequenceDuration, animationFrameId), the circles of its particle   *)
(* group, the handle of the frame callback the browser has queued (0:      *)
(* none), and history: the animations found in their window by the last    *)
(* frame, its time, the number of frames run (counted to 2), whether the   *)
(* cleanup was called, and whether a frame ran after that.                 *)
(***************************************************************************)
\* a duration with the upper limit only
CappedOnly(pathLength) == Min(maxDuration, pathLength * durationMultiplier)

\* a duration without the clamp
Unclamped(pathLength) == pathLength * durationMultiplier

calculateDuration(pathLength) ==
  Max(minDuration, Min(maxDuration, pathLength * durationMultiplier))

\* The position of a circle (its cx and cy) is the point of its path at an
\* arc length, kept as that length: a fraction <<numerator, denominator>> of
\* exact naturals.  createCircle puts the circle at (0, 0), on no path.
Origin == << <<>>, <<>> >>

\* PARTICLE_STYLE opacities of the three circles, in creation order
createParticle ==
  << [cls |-> "particle-outer-glow", opacity |-> <<15, 100>>, cx |-> Origin],
     [cls |-> "edge-particle", opacity |-> <<50, 100>>, cx |-> Origin],
     [cls |-> "particle-inner-glow", opacity |-> <<40, 100>>, cx |-> Origin] >>

\* a schedule that does not advance: every path starts with the first
SameStartTime(cumulativeStartTime, duration) == cumulativeStartTime

\* a start time that leaves a gap after the path before
LaterStartTime(cumulativeStartTime, duration) == cumulativeStartTime + duration + 1

\* the start time of the path that follows one starting at cumulativeStartTime
NextStartTime(cumulativeStartTime, duration) == cumulativeStartTime + duration

\* createParticlesForPath, its i-th particle onwards; base is the number of
\* circles already in the particle group
RECURSIVE ParticlesFrom(_, _, _, _, _)
ParticlesFrom(i, path, pathLength, cumulativeStartTime, base) ==
  IF i >= particleCount THEN [animations |-> <<>>, circles |-> <<>>]
  ELSE LET duration == calculateDuration(pathLength)
           rest == ParticlesFrom(i + 1, path, pathLength, cumulativeStartTime, base + 3)
           core == [element |-> base + 2, glowElement |-> base + 3, path |-> path,
                    pathLength |-> pathLength, duration |-> duration, offset |-> 0,
                    startTime |-> cumulativeStartTime]
           glow == [element |-> base + 1, glowElement |-> base + 1, path |-> path,
                    pathLength |-> pathLength, duration |-> duration, offset |-> 0,
                    startTime |-> cumulativeStartTime]
       IN [animations |-> <<core, glow>> \o rest.animations,
           circles |-> createParticle \o rest.circles]

createParticlesForPath(path, pathLength, cumulativeStartTime, base) ==
  LET r == ParticlesFrom(0, path, pathLength, cumulativeStartTime, base)
  IN [animations |-> r.animations, circles |-> r.circles,
      nextStartTime |-> NextStartTime(cumulativeStartTime, calculateDuration(pathLength))]

\* an opacity that rises with the progress all the way
LinearOpacity(p, d) == <<p, d>>

\* calculateOpacity of the progress p / d
calculateOpacity(p, d) ==
  IF 100 * p < 15 * d THEN <<100 * p, 15 * d>>
  ELSE IF 100 * p > 85 * d THEN <<100 * (d - p), 15 * d>>
  ELSE <<1, 1>>

\* the window test of updateParticlePosition
isInActiveWindow(cycleTime, particleStartInSequence, particleEndInSequence) ==
  cycleTime >= particleStartInSequence /\ cycleTime < particleEndInSequence

\* easeInOutCubic of the progress p / d, 0 <= p < d
easeInOutCubic(p, d) ==
  LET whole == Cube(d)
  IN IF 2 * p < d THEN <<BigTimes(Cube(p), 4), whole>>
     ELSE <<BigMinus(whole, BigTimes(Cube(d - p), 4)), whole>>

\* easedProgress * animation.pathLength
Distance(easedProgress, pathLength) ==
  <<BigTimes(easedProgress[1], pathLength), easedProgress[2]>>

\* a particle that is hidden and put back at (0, 0)
hiddenAtOrigin(circle) == [circle EXCEPT !.opacity = <<0, 1>>, !.cx = Origin]

\* setAttribute('opacity', '0')
hidden(circle) == [circle EXCEPT !.opacity = <<0, 1>>]

\* a write that leaves the inner glow alone
ElementOnly(animation, isCore) == {animation.element}

\* the circles updateParticlePosition writes: the element, and for a core
\* its inner glow
Written(animation, isCore) ==
  {animation.element}
    \cup (IF isCore /\ animation.glowElement # animation.element
          THEN {animation.glowElement} ELSE {})

\* updateParticlePosition: the circles after the update of one animation
updateParticlePosition(animation, currentTime, isCore, totalSequenceDuration, sequenceStartTime, circles) ==
  LET timeSinceSequenceStart == currentTime - sequenceStartTime
      cycleTime == timeSinceSequenceStart % totalSequenceDuration
      particleStartInSequence == animation.startTime - sequenceStartTime
      particleEndInSequence == particleStartInSequence + animation.duration
      written == Written(animation, isCore)
  IN IF ~isInActiveWindow(cycleTime, particleStartInSequence, particleEndInSequence)
     THEN [c \in DOMAIN circles |->
             IF c \in written THEN hidden(circles[c]) ELSE circles[c]]
     ELSE LET p == cycleTime - particleStartInSequence
              easedProgress == easeInOutCubic(p, animation.duration)
              distance == Distance(easedProgress, animation.pathLength)
              opacity == calculateOpacity(p, animation.duration)
          IN [c \in DOMAIN circles |->
                IF c \in written
                THEN [circles[c] EXCEPT !.opacity = opacity, !.cx = distance]
                ELSE circles[c]]

\* whether the animation's window holds the current time of the loop
InWindow(animation, currentTime, totalSequenceDuration, sequenceStartTime) ==
  isInActiveWindow((currentTime - sequenceStartTime) % totalSequenceDuration,
                   animation.startTime - sequenceStartTime,
                   animation.startTime - sequenceStartTime + animation.duration)

\* the forEach of animate: animations k.. of the loop, in order
RECURSIVE AnimateFrom(_, _, _, _)
AnimateFrom(loop, k, currentTime, circles) ==
  IF k > Len(loop.animations) THEN circles
  ELSE AnimateFrom(loop, k + 1, currentTime,
         updateParticlePosition(loop.animations[k], currentTime, (k - 1) % 2 = 0,
                                loop.totalSequenceDuration, loop.sequenceStartTime,
                                circles))

\* a total that counts the first animation only
TotalOfFirst(animations, i, total) == animations[1].duration

\* the total of startParticleAnimation: the latest end among the core animations
RECURSIVE TotalFrom(_, _, _)
TotalFrom(animations, i, total) ==
  IF i > Len(animations) THEN total
  ELSE LET endTime == animations[i].startTime + animations[i].duration
                      - animations[1].startTime
       IN TotalFrom(animations, i + 2, Max(total, endTime))

\* a fresh requestAnimationFrame handle: it differs from the one before
NextHandle(id) == IF id = 1 THEN 2 ELSE 1

\* animate: one frame of the loop at currentTime, and the request of the next
animate(loop, currentTime) ==
  LET id == NextHandle(loop.animationFrameId)
  IN [loop EXCEPT
        !.circles = AnimateFrom(loop, 1, currentTime, loop.circles),
        !.active = {k \in DOMAIN loop.animations :
                      InWindow(loop.animations[k], currentTime,
                               loop.totalSequenceDuration, loop.sequenceStartTime)},
        !.lastFrame = currentTime,
        !.frames = Min(2, loop.frames + 1),
        !.animationFrameId = id,
        !.queued = id,
        !.late = loop.cancelled]

\* the handle of the first request, stale once a frame has run
FirstHandle(loop) == NextHandle(0)

\* the handle the cleanup function cancels
CancelledHandle(loop) == loop.animationFrameId

\* the cleanup function startParticleAnimation returns
cleanupLoop(loop) ==
  [loop EXCEPT !.queued = IF loop.animationFrameId # 0
                             /\ loop.queued = CancelledHandle(loop)
                          THEN 0 ELSE loop.queued,
               !.cancelled = TRUE]

\* startParticleAnimation for a non-empty list of animations: the loop after
\* its first, synchronous call of animate
startParticleAnimation(animations, circles, graphic, currentTime) ==
  animate([animations |-> animations, circles |-> circles, graphic |-> graphic,
           sequenceStartTime |-> animations[1].startTime,
           totalSequenceDuration |-> TotalFrom(animations, 1, 0),
           animationFrameId |-> 0, queued |-> 0,
           active |-> {}, lastFrame |-> 0, frames |-> 0, cancelled |-> FALSE,
           late |-> FALSE],
          currentTime)

(***************************************************************************)
(* svgUtils and index.tsx: the selectors and the searches that read the    *)
(* rendered graphic g.                                                     *)
(***************************************************************************)
\* MERMAID_SELECTORS.nodes
NodeShapes(g) == Below(g, "node", {"rect", "polygon", "circle", "ellipse"})

\* MERMAID_SELECTORS.edges[k]
EdgeSelector(g, k) ==
  CASE k = 1 -> WithClass(g, "flowchart-link")
    [] k = 2 -> WithClass(g, "messageLine0")
    [] k = 3 -> WithClass(g, "messageLine1")
    [] k = 4 -> WithClass(g, "messageLine0") \cap WithClass(g, "dashed")
    [] k = 5 -> WithClass(g, "messageLine1") \cap WithClass(g, "dashed")
    [] k = 6 -> Below(g, "edgePath", {"path"})
    [] k = 7 -> {e \in WithClass(g, "edge") : g[e].tag = "path"}
    [] k = 8 -> {e \in WithClass(g, "relation") : g[e].tag = "path"}

\* the fallback of findEdgePaths: paths whose parent is neither a node
\* container nor a marker
FallbackPaths(g) ==
  {e \in Elems(g) :
     /\ g[e].tag = "path"
     /\ (g[e].parent = 0 \/ "node" \notin g[g[e].parent].cls)
     /\ (g[e].parent = 0 \/ g[g[e].parent].tag # "marker")}

\* the selectors findEdgePaths returns the matches of
MatchedSelectors(g) ==
  LET hits == {k \in 1..8 : EdgeSelector(g, k) # {}}
  IN IF hits = {} THEN {} ELSE {First(hits)}

findEdgePaths(g) ==
  IF MatchedSelectors(g) = {} THEN InOrder(FallbackPaths(g))
  ELSE InOrder(UNION {EdgeSelector(g, k) : k \in MatchedSelectors(g)})

SeqToSet(s) == {s[i] : i \in DOMAIN s}

\* the markers fixArrowMarkers corrects: those whose id names an arrowhead
ArrowMarkers(g) ==
  {e \in Elems(g) : g[e].tag = "marker"
                    /\ g[e].id \in {"arrowhead", "flowchart-pointEnd", "crosshead-arrow"}}

\* className.includes('actor')
ActorClasses == {"actor", "actor-top", "actor-bottom", "actor-box", "actor-man"}

HasTag(g, e, tag) == \E x \in Desc(g, e) : g[x].tag = tag

actorCandidates(g) ==
  {e \in Elems(g) :
     /\ g[e].tag = "g"
     /\ HasTag(g, e, "rect") /\ HasTag(g, e, "text")
     /\ (g[e].cls \cap ActorClasses # {} \/ HasTag(g, e, "line"))}

\* the text element whose content names the actor
ActorText(g, actor) == First({x \in Desc(g, actor) : g[x].tag = "text"})

actorName(g, actor) == trim(textContent(g, ActorText(g, actor)))

(***************************************************************************)
(* index.tsx: findNodeLabel and findEdgeLabel.  A label is a token         *)
(* sequence wrapped by Some, or UNDEFINED.                                 *)
(***************************************************************************)
\* the number of characters of a token: "bulk" stands for a run of text
TokLen(t) ==
  CASE t = "bulk" -> 200
    [] t = "most" -> 199
    [] t = "Start" -> 5
    [] t = "Process" -> 7
    [] t = "Yes" -> 3
    [] t \in {"hi", "ok"} -> 2
    [] OTHER -> 1

RECURSIVE Length(_)
\* String.prototype.length
Length(s) == IF s = <<>> THEN 0 ELSE TokLen(Head(s)) + Length(Tail(s))

\* the elements a label selector of findNodeLabel matches
LabelSelector(g, k) ==
  CASE k = 1 -> {e \in Elems(g) : g[e].tag = "text"}
    [] k = 2 -> WithClass(g, "nodeLabel")
    [] k = 3 -> WithClass(g, "label")
    [] k = 4 -> {e \in Elems(g) : g[e].tag = "tspan"}
    [] k = 5 -> {e \in Elems(g) : g[e].tag = "foreignObject"}

\* split('\n').find(line => line.trim().length > 0): the first line of s that
\* is not blank, <<>> when there is none
RECURSIVE FirstLine(_)
FirstLine(s) ==
  IF s = <<>> THEN <<>>
  ELSE LET e == LineEnd(s, 1)
           line == SubSeq(s, 1, e)
       IN IF trim(line) # <<>> THEN line
          ELSE IF e >= Len(s) THEN <<>>
          ELSE FirstLine(SubSeq(s, e + 2, Len(s)))

\* a search that starts at the element itself
ElementItself(g, element) == element

\* the element findNodeLabel searches: the parent of a leaf shape
SearchElement(g, element) ==
  IF g[element].tag \in {"rect", "circle", "path", "image"} THEN g[element].parent
  ELSE element

\* the label selectors whose first match holds an acceptable text
Acceptable(g, se) ==
  {k \in 1..5 :
     /\ LabelSelector(g, k) \cap Desc(g, se) # {}
     /\ LET text == trim(textContent(g, First(LabelSelector(g, k) \cap Desc(g, se))))
        IN text # <<>> /\ Length(text) < 200}

findNodeLabel(g, element) ==
  LET se == SearchElement(g, element)
      firstLine == FirstLine(trim(textContent(g, se)))
  IN IF Acceptable(g, se) # {}
     THEN Some(trim(textContent(g, First(LabelSelector(g, First(Acceptable(g, se))) \cap Desc(g, se)))))
     ELSE IF firstLine # <<>> /\ Length(firstLine) < 200 THEN Some(trim(firstLine))
     ELSE UNDEFINED

\* '.edgeLabel text, .messageText'
EdgeTexts(g) == Below(g, "edgeLabel", {"text"}) \cup WithClass(g, "messageText")

\* '.edgeLabel, .messageText'
EdgeLabels(g) == WithClass(g, "edgeLabel") \cup WithClass(g, "messageText")

\* strategy 1: the one label of a parent holding one label and one path
PairedLabel(g, element) ==
  LET parent == g[element].parent
      labelsInParent == EdgeTexts(g) \cap Desc(g, parent)
      pathsInParent == {x \in Desc(g, parent) : g[x].tag = "path"}
  IN IF Cardinality(labelsInParent) = 1 /\ Cardinality(pathsInParent) = 1
     THEN trim(textContent(g, First(labelsInParent)))
     ELSE <<>>

\* the text of an edgeLabel sibling: that of its first text element
SiblingText(g, sibling) ==
  LET texts == {x \in Desc(g, sibling) : g[x].tag = "text"}
  IN IF texts = {} THEN <<>> ELSE trim(textContent(g, First(texts)))

\* a scan of all the siblings, whatever their position
AnySiblingLabel(g, element) ==
  LET siblings == InOrder(Children(g, g[element].parent))
      labelled == {i \in DOMAIN siblings :
                     /\ "edgeLabel" \in g[siblings[i]].cls
                     /\ SiblingText(g, siblings[i]) # <<>>}
  IN IF labelled = {} THEN <<>> ELSE SiblingText(g, siblings[First(labelled)])

\* strategy 2: the first edgeLabel sibling with a text, among the positions
\* currentIndex - 2 .. currentIndex + 2 of the parent's children
SiblingLabel(g, element) ==
  LET siblings == InOrder(Children(g, g[element].parent))
      currentIndex == CHOOSE i \in DOMAIN siblings : siblings[i] = element
      near == {i \in DOMAIN siblings :
                 /\ i >= Max(1, currentIndex - 2) /\ i <= Min(Len(siblings), currentIndex + 2)
                 /\ "edgeLabel" \in g[siblings[i]].cls
                 /\ SiblingText(g, siblings[i]) # <<>>}
  IN IF near = {} THEN <<>> ELSE SiblingText(g, siblings[First(near)])

\* the square of the distance between the centres of two bounding boxes
Dist2(g, a, b) == (g[a].x - g[b].x) * (g[a].x - g[b].x) + (g[a].y - g[b].y) * (g[a].y - g[b].y)

\* strategy 3: the first of the labels nearest to the edge, among those
\* closer than 200 pixels
ClosestLabel(g, element) ==
  LET within == {l \in EdgeLabels(g) : Dist2(g, element, l) < 200 * 200}
      nearest == {l \in within : \A m \in within : Dist2(g, element, l) <= Dist2(g, element, m)}
  IN IF within = {} THEN <<>> ELSE trim(textContent(g, First(nearest)))

findEdgeLabel(g, element) ==
  IF PairedLabel(g, element) # <<>> THEN Some(PairedLabel(g, element))
  ELSE IF SiblingLabel(g, element) # <<>> THEN Some(SiblingLabel(g, element))
  ELSE IF ClosestLabel(g, element) # <<>> THEN Some(ClosestLabel(g, element))
  ELSE UNDEFINED

\* the elements setupInteractivity wires as nodes and as edges
InteractiveNodes(g) ==
  WithClass(g, "node") \cup WithClass(g, "actor") \cup WithClass(g, "stateGroup")
    \cup WithClass(g, "classGroup")

InteractiveEdges(g) ==
  WithClass(g, "flowchart-link") \cup WithClass(g, "messageLine0")
    \cup WithClass(g, "messageLine1") \cup Below(g, "edgePath", {"path"})
    \cup {e \in WithClass(g, "edge") : g[e].tag = "path"}

\* the path element an edge-label listener reports: the first line of the
\* closest group, the label element itself when there is none
LabelPath(g, labelElement) ==
  LET groups == {a \in Anc(g, labelElement) \cup {labelElement} : g[a].tag = "g"}
      parent == CHOOSE a \in groups : \A b \in groups : b <= a
      lines == IF groups = {} THEN {}
               ELSE Desc(g, parent) \cap (WithClass(g, "flowchart-link")
                        \cup WithClass(g, "messageLine0") \cup WithClass(g, "messageLine1")
                        \cup {x \in Elems(g) : g[x].tag = "path"})
  IN IF lines = {} THEN labelElement ELSE First(lines)

(***************************************************************************)
(* What the searches above find in each graphic of the model: the graphic  *)
(* does not change between two renders, so every run of the setup effect   *)
(* on it finds the same elements and the same texts.                       *)
(***************************************************************************)
QueriesOf(g) ==
  [parent |-> [e \in Elems(g) |-> g[e].parent],
   pathLength |-> [e \in Elems(g) |-> g[e].len],
   nodeShapes |-> NodeShapes(g),
   rects |-> {e \in NodeShapes(g) : g[e].tag = "rect"},
   labels |-> WithClass(g, "nodeLabel") \cup WithClass(g, "edgeLabel"),
   edges |-> findEdgePaths(g),
   arrowMarkers |-> ArrowMarkers(g),
   actors |-> actorCandidates(g),
   actorName |-> [a \in actorCandidates(g) |-> actorName(g, a)],
   actorText |-> [a \in actorCandidates(g) |-> ActorText(g, a)],
   nodes |-> InteractiveNodes(g),
   links |-> InteractiveEdges(g),
   edgeLabels |-> EdgeLabels(g),
   nodeLabel |-> [e \in InteractiveNodes(g) |-> findNodeLabel(g, e)],
   edgeLabel |-> [e \in InteractiveEdges(g) |-> findEdgeLabel(g, e)],
   labelText |-> [e \in EdgeLabels(g) |-> Some(trim(textContent(g, e)))],
   labelPath |-> [e \in EdgeLabels(g) |-> LabelPath(g, e)]]

GraphicIds == {"", "flow", "seq"}

Queries == [gid \in GraphicIds |-> QueriesOf(Graphic(gid))]

(***************************************************************************)
(* The live graphic: the annotations the component adds to the elements of *)
(* the rendered graphic gid.  cls: classes added; rounded: elements given  *)
(* rx/ry; lst: the listeners of each element, in registration order; img:  *)
(* the images appended to each element; shift: the times the x of a text   *)
(* was moved; refx: the times a marker's refX was pulled back; layers: the *)
(* particle groups appended, each the number of the loop that owns its     *)
(* circles; styles: the style elements appended, by theme; noanim: the     *)
(* elements with style.animation = 'none'; pointer: with cursor: pointer.  *)
(***************************************************************************)
FreshDom(gid) ==
  [gid |-> gid,
   cls |-> [e \in Elems(Graphic(gid)) |-> {}],
   rounded |-> {},
   lst |-> [e \in Elems(Graphic(gid)) |-> <<>>],
   img |-> [e \in Elems(Graphic(gid)) |-> 0],
   shift |-> [e \in Elems(Graphic(gid)) |-> 0],
   refx |-> [e \in Elems(Graphic(gid)) |-> 0],
   layers |-> <<>>,
   styles |-> <<>>,
   noanim |-> {},
   pointer |-> {}]

(***************************************************************************)
(* svgUtils: enhanceNodes, enhanceLabels, enhanceEdges, fixArrowMarkers,   *)
(* createParticleLayer, enhanceSVG, on the live graphic d; v is the        *)
(* Queries entry of its graphic.                                           *)
(***************************************************************************)
AddClass(cls, es, c) == [e \in DOMAIN cls |-> IF e \in es THEN cls[e] \cup {c} ELSE cls[e]]

enhanceNodes(v, d) ==
  [d EXCEPT !.cls = AddClass(d.cls, v.nodeShapes, "animated-node"),
            !.rounded = d.rounded \cup v.rects]

enhanceLabels(v, d) ==
  [d EXCEPT !.cls = AddClass(d.cls, v.labels, "animated-label")]

enhanceEdges(v, d) ==
  [d EXCEPT !.cls = AddClass(d.cls, SeqToSet(v.edges), "animated-edge")]

fixArrowMarkers(v, d) ==
  [d EXCEPT !.refx = [e \in DOMAIN d.refx |->
                        IF e \in v.arrowMarkers THEN d.refx[e] + 1 ELSE d.refx[e]]]

\* the particle group of loop number n, appended to the svg
createParticleLayer(d, n) == [d EXCEPT !.layers = Append(d.layers, n)]

\* enhanceSVG; the edges it returns are v.edges
enhanceSVG(v, d, n) ==
  createParticleLayer(fixArrowMarkers(v, enhanceEdges(v, enhanceLabels(v, enhanceNodes(v, d)))), n)

(***************************************************************************)
(* index.tsx: setupParticleAnimations.                                     *)
(***************************************************************************)
\* the edges.forEach of setupParticleAnimations
RECURSIVE ScheduleFrom(_, _, _, _)
ScheduleFrom(v, edges, cumulativeStartTime, base) ==
  IF edges = <<>> THEN [animations |-> <<>>, circles |-> <<>>]
  ELSE LET result == createParticlesForPath(Head(edges), v.pathLength[Head(edges)],
                                            cumulativeStartTime, base)
           rest == ScheduleFrom(v, Tail(edges), result.nextStartTime,
                                base + Len(result.circles))
       IN [animations |-> result.animations \o rest.animations,
           circles |-> result.circles \o rest.circles]

\* the last line of setupParticleAnimations: startParticleAnimation on the
\* animations sched that the forEach built
StartLoop(v, d, n, currentTime, sched) ==
  IF sched.animations = <<>>
  THEN [dom |-> enhanceSVG(v, d, 0), loops |-> <<>>]
  ELSE [dom |-> enhanceSVG(v, d, n),
        loops |-> <<startParticleAnimation(sched.animations, sched.circles,
                                           d.gid, currentTime)>>]

\* setupParticleAnimations at time currentTime, as the n-th loop: the live
\* graphic after enhanceSVG and the loop started (loops: <<>> when there is
\* no edge, and the cleanup returned does nothing)
setupParticleAnimations(v, d, n, currentTime) ==
  StartLoop(v, d, n, currentTime, ScheduleFrom(v, v.edges, currentTime, 0))

(***************************************************************************)
(* index.tsx: addActorImages.                                              *)
(***************************************************************************)
\* the candidates that get an image: those whose name the mappings hold
ImageTargets(v, imageMappings) ==
  {a \in v.actors : v.actorName[a] \in DOMAIN imageMappings}

addActorImages(v, d, imageMappings) ==
  IF DOMAIN imageMappings = {} THEN d
  ELSE LET targets == ImageTargets(v, imageMappings)
           \* one shift of the text for every target it names
           shifts(t) == Cardinality({a \in targets : v.actorText[a] = t})
       IN [d EXCEPT
             !.img = [e \in DOMAIN d.img |-> IF e \in targets THEN d.img[e] + 1 ELSE d.img[e]],
             !.shift = [e \in DOMAIN d.shift |-> d.shift[e] + shifts(e)]]

(***************************************************************************)
(* index.tsx: applyCustomTheme.  A theme is "none" (no theme prop) or the  *)
(* name of a theme object with at least one of the styled fields.          *)
(***************************************************************************)
Themes == {"none", "teal", "rose"}

applyCustomTheme(d, theme) ==
  IF theme = "none" THEN d ELSE [d EXCEPT !.styles = Append(d.styles, theme)]

(***************************************************************************)
(* index.tsx: setupInteractivity.  A listener is a record: the event type, *)
(* the callback prop its closure calls and the generation of the callback  *)
(* props it was taken from, whether it calls stopPropagation, the kind of  *)
(* element it was written for, and the label its closure captured (the     *)
(* listeners of edge labels).                                              *)
(***************************************************************************)
Listener(type, cb, gen, stop, kind, label) ==
  [type |-> type, cb |-> cb, gen |-> gen, stop |-> stop, kind |-> kind, label |-> label]

\* the listeners one run of setupInteractivity adds to element e
NewListeners(v, e, cbs, gen) ==
  (IF e \in v.nodes /\ cbs \cap {"onNodeClick", "onNodeHover"} # {}
   THEN (IF "onNodeClick" \in cbs
         THEN <<Listener("click", "onNodeClick", gen, TRUE, "node", UNDEFINED)>>
         ELSE <<>>)
        \o (IF "onNodeHover" \in cbs
            THEN <<Listener("mouseenter", "onNodeHover", gen, FALSE, "node", UNDEFINED),
                   Listener("mouseleave", "onNodeHover", gen, FALSE, "node", UNDEFINED)>>
            ELSE <<>>)
   ELSE <<>>)
  \o
  (IF e \in v.links /\ cbs \cap {"onEdgeClick", "onEdgeHover"} # {}
   THEN (IF "onEdgeClick" \in cbs
         THEN <<Listener("click", "onEdgeClick", gen, FALSE, "edge", UNDEFINED)>>
         ELSE <<>>)
        \o (IF "onEdgeHover" \in cbs
            THEN <<Listener("mouseenter", "onEdgeHover", gen, FALSE, "edge", UNDEFINED),
                   Listener("mouseleave", "onEdgeHover", gen, FALSE, "edge", UNDEFINED)>>
            ELSE <<>>)
   ELSE <<>>)
  \o
  (IF e \in v.edgeLabels /\ cbs \cap {"onEdgeClick", "onEdgeHover"} # {}
   THEN (IF "onEdgeClick" \in cbs
         THEN <<Listener("click", "onEdgeClick", gen, TRUE, "edgeLabel", v.labelText[e])>>
         ELSE <<>>)
        \o (IF "onEdgeHover" \in cbs
            THEN <<Listener("mouseenter", "onEdgeHover", gen, FALSE, "edgeLabel", v.labelText[e]),
                   Listener("mouseleave", "onEdgeHover", gen, FALSE, "edgeLabel", v.labelText[e])>>
            ELSE <<>>)
   ELSE <<>>)

setupInteractivity(v, d, cbs, gen) ==
  [d EXCEPT
     !.lst = [e \in DOMAIN d.lst |-> d.lst[e] \o NewListeners(v, e, cbs, gen)],
     !.pointer = d.pointer
        \cup (IF "onNodeClick" \in cbs THEN v.nodes ELSE {})
        \cup (IF "onEdgeClick" \in cbs THEN v.links \cup v.edgeLabels ELSE {})]

\* the argument of a callback: null, or the event data of an element
NULL == [null |-> TRUE, element |-> 0, label |-> UNDEFINED]
Data(element, label) == [null |-> FALSE, element |-> element, label |-> label]

\* the argument a listener passes to its callback
EventData(v, e, l) ==
  IF l.type = "mouseleave" THEN NULL
  ELSE IF l.kind = "node" THEN Data(e, v.nodeLabel[e])
  ELSE IF l.kind = "edge" THEN Data(e, v.edgeLabel[e])
  ELSE Data(v.labelPath[e], l.label)

\* the body of a listener: one call of its callback, made at element e
CallOf(v, e, l) == [cb |-> l.cb, gen |-> l.gen, at |-> e, data |-> EventData(v, e, l)]

\* listeners that stay silent when their element has no label
RECURSIVE LabelledCallsOf(_, _, _, _)
LabelledCallsOf(v, e, ls, type) ==
  IF ls = <<>> THEN <<>>
  ELSE (IF Head(ls).type = type /\ (CallOf(v, e, Head(ls)).data.null
                                     \/ CallOf(v, e, Head(ls)).data.label.some)
        THEN <<CallOf(v, e, Head(ls))>> ELSE <<>>)
       \o LabelledCallsOf(v, e, Tail(ls), type)

\* the calls the listeners of element e make for an event of the given type
RECURSIVE CallsOf(_, _, _, _)
CallsOf(v, e, ls, type) ==
  IF ls = <<>> THEN <<>>
  ELSE (IF Head(ls).type = type THEN <<CallOf(v, e, Head(ls))>> ELSE <<>>)
       \o CallsOf(v, e, Tail(ls), type)

\* a click on element e and its bubbling to the ancestors, until a listener
\* has called stopPropagation
RECURSIVE Bubble(_, _, _)
Bubble(v, d, e) ==
  LET stopped == \E i \in DOMAIN d.lst[e] : d.lst[e][i].type = "click" /\ d.lst[e][i].stop
  IN CallsOf(v, e, d.lst[e], "click")
     \o (IF stopped \/ v.parent[e] = 0 THEN <<>> ELSE Bubble(v, d, v.parent[e]))

(***************************************************************************)
(* exportUtils: exportAsPNG, exportAsJPG, exportAsSVG and what they call.  *)
(* An export in flight is a record: format; pc, the await it stands at     *)
(* ("inlining": the Promise.all of inlineStyles, "loading": the load of    *)
(* the serialized clone in svgToCanvas, "encoding": the callback of        *)
(* canvas.toBlob, outstanding after downloadCanvas returned); promise, the *)
(* state of the promise the export function returned; svgClone; images,    *)
(* the urlToDataUri call of every image of the clone; canvas, the fill     *)
(* style of the canvas drawn; downloads, the calls of link.click();        *)
(* uncaught, the errors thrown out of a callback.                          *)
(***************************************************************************)
Formats == {"png", "jpg", "svg"}

\* the transparent 1x1 pixel urlToDataUri returns as its last fallback
PLACEHOLDER == <<"data:", "1x1">>

\* the data URI of the image at url
DataUri(url) == <<"data:">> \o url

\* href.startsWith('http'): the locator token "u" stands for an http URL
startsWithHttp(href) == href # <<>> /\ href[1] = "u"

NoClone ==
  [dom |-> [gid |-> "", styles |-> <<>>, layers |-> <<>>], particles |-> <<>>,
   xmlns |-> FALSE, width |-> FALSE, height |-> FALSE]

NoExport ==
  [format |-> "none", pc |-> "idle", promise |-> "none", svgClone |-> NoClone,
   images |-> <<>>, canvas |-> "none", downloads |-> 0, uncaught |-> 0]

\* the image elements of the graphic d in document order, with the href
\* addActorImages gave them from mappings
RECURSIVE ImagesFrom(_, _, _, _)
ImagesFrom(v, d, mappings, hosts) ==
  IF hosts = <<>> THEN <<>>
  ELSE [k \in 1..d.img[Head(hosts)] |->
          [host |-> Head(hosts), href |-> mappings[v.actorName[Head(hosts)]]]]
       \o ImagesFrom(v, d, mappings, Tail(hosts))

querySelectorAllImage(v, d, mappings) ==
  ImagesFrom(v, d, mappings, InOrder({e \in DOMAIN d.img : d.img[e] > 0}))

\* svgElement.cloneNode(true), in what an export reads or writes of it: the
\* style elements, the particle layers and their circles as they are at the
\* time of the call
cloneNode(d, ls) ==
  [dom |-> [gid |-> d.gid, styles |-> d.styles, layers |-> d.layers],
   particles |-> [k \in DOMAIN d.layers |->
                    IF d.layers[k] = 0 THEN <<>> ELSE ls[d.layers[k]].circles],
   xmlns |-> FALSE, width |-> FALSE, height |-> FALSE]

\* svgClone.insertBefore(styleElement, svgClone.firstChild) on the tree t
insertStyle(t) == [t EXCEPT !.dom.styles = <<"document">> \o t.dom.styles]

\* inlineStyles up to its await without a clone of its own: the style
\* element goes into svgElement itself
inlineInPlace(d, ls, images) ==
  [svgElement |-> [d EXCEPT !.styles = <<"document">> \o d.styles],
   svgClone |-> insertStyle(cloneNode(d, ls)),
   images |-> [k \in DOMAIN images |->
                 [host |-> images[k].host, href |-> images[k].href,
                  stage |-> IF startsWithHttp(images[k].href) THEN "fetch" ELSE "local"]]]

\* inlineStyles up to its await: svgElement as the call leaves it, the clone
\* with the style element, and a urlToDataUri call (at its fetch) for every
\* image whose href is an http locator
inlineStyles(d, ls, images) ==
  [svgElement |-> d,
   svgClone |-> insertStyle(cloneNode(d, ls)),
   images |-> [k \in DOMAIN images |->
                 [host |-> images[k].host, href |-> images[k].href,
                  stage |-> IF startsWithHttp(images[k].href) THEN "fetch" ELSE "local"]]]

\* the download at the end of exportAsSVG and in the toBlob callback
download(x) == [x EXCEPT !.downloads = x.downloads + 1]

\* the promise of the export settles
resolve(x) == [x EXCEPT !.promise = "resolved"]
reject(x) == [x EXCEPT !.promise = "rejected", !.pc = "done"]

\* ctx.fillStyle of svgToCanvas: exportAsJPG passes '#FFFFFF'
fillStyle(format) == IF format = "jpg" THEN "#FFFFFF" ELSE "#F7F6F2"

\* the code after "await inlineStyles": exportAsSVG serializes the clone and
\* downloads it; svgToCanvas sizes the clone and waits for its load
afterInlineStyles(x) ==
  IF x.format = "svg"
  THEN resolve([download(x) EXCEPT !.svgClone.xmlns = TRUE, !.pc = "done"])
  ELSE [x EXCEPT !.svgClone.xmlns = TRUE, !.svgClone.width = TRUE,
                 !.svgClone.height = TRUE, !.pc = "loading"]

\* Promise.all(imagePromises), run with the microtasks of the step that
\* settled a promise: rejected with the first image rejected, fulfilled when
\* none is left pending
promiseAll(x) ==
  IF x.pc # "inlining" THEN x
  ELSE IF \E k \in DOMAIN x.images : x.images[k].stage = "rejected" THEN reject(x)
  ELSE IF \A k \in DOMAIN x.images : x.images[k].stage \in {"local", "done"}
       THEN afterInlineStyles(x)
  ELSE x

\* the .then of inlineStyles on image k of the clone
setHref(x, k, dataUri) ==
  [x EXCEPT !.images[k].href = dataUri, !.images[k].stage = "done"]

\* urlToDataUri of image k: fetch(url) settles
fetchSettled(x, k, ok) ==
  [x EXCEPT !.images[k].stage = IF ok THEN "blob" ELSE "img"]

\* response.blob() settles; the FileReader promise is returned from the try
\* block without await
blobSettled(x, k, ok) ==
  [x EXCEPT !.images[k].stage = IF ok THEN "read" ELSE "img"]

\* the FileReader ends: onerror (reject) runs before onloadend, and the
\* rejection of the returned promise is the rejection of urlToDataUri
readerSettled(x, k, ok) ==
  IF ok THEN setHref(x, k, DataUri(x.images[k].href))
  ELSE [x EXCEPT !.images[k].stage = "rejected"]

\* loadImageAsDataUri settles: onload with a context and a readable canvas,
\* or a rejection (onerror, no context, toDataURL throws) that the inner
\* catch turns into the placeholder
imageSettled(x, k, ok) ==
  setHref(x, k, IF ok THEN DataUri(x.images[k].href) ELSE PLACEHOLDER)

\* svgToCanvas after the load of the serialized clone settled (loaded: onload
\* or onerror; ctx: whether getContext('2d') gave a context), then
\* downloadCanvas, which returns once canvas.toBlob is called
svgLoaded(x, loaded, ctx) ==
  IF loaded /\ ctx
  THEN resolve([x EXCEPT !.canvas = fillStyle(x.format), !.pc = "encoding"])
  ELSE reject(x)

\* the callback of canvas.toBlob
toBlobCallback(x, blob) ==
  IF blob THEN [download(x) EXCEPT !.pc = "done"]
  ELSE [x EXCEPT !.uncaught = x.uncaught + 1, !.pc = "done"]

\* no function called on arguments of its own, and no value returned
NoArg == [fn |-> "none"]
NoReturn == [called |-> FALSE, value |-> UNDEFINED]
Return(value) == [called |-> TRUE, value |-> value]

(***************************************************************************)
(* The component.  props: the props of the last render.  pending: the      *)
(* charts of the renderDiagram calls in flight.  svgContent (the id of the *)
(* graphic, "" before the first render) and imageMappings: the state of    *)
(* the component.  dom: the live graphic in the container.  loops: every   *)
(* particle loop started so far.  cleanup: the loop whose cleanup function *)
(* the last run of the setup effect returned (0: none, or one that does    *)
(* nothing).  setups: the runs of the setup effect.  now: Date.now().      *)
(* calls: the last user event (its type, its target, the graphic, the      *)
(* listeners of that type the target carried) and the callback calls it    *)
(* made.  src, out: the argument and the result of a call of               *)
(* preprocessChart on its own.  exp: the export in flight.  arg, ret: the   *)
(* arguments and the result of a call of one of the other functions on     *)
(* its own.                                                                *)
(***************************************************************************)
VARIABLES props, mounted, pending, svgContent, imageMappings, dom, loops, cleanup, setups, now, calls, src, out, exp, arg, ret

vars == <<props, mounted, pending, svgContent, imageMappings, dom, loops, cleanup, setups, now, calls, src, out, exp, arg, ret>>

CallbackSets ==
  { {}, {"onNodeClick", "onEdgeClick"},
    {"onNodeClick", "onNodeHover", "onEdgeClick", "onEdgeHover"} }

\* an effect whose cleanup is never called
NoCleanup(ls, c) == ls

\* the cleanup function of the last effect run, called
RunCleanup(ls, c) == IF c = 0 THEN ls ELSE [ls EXCEPT ![c] = cleanupLoop(ls[c])]

\* whether the setup effect starts the particles
ParticlesEnabled(p) == ~p.disableParticles /\ ~p.disableAnimations

\* the elements the disableAnimations branch of the effect stops
AnimatedElements(d) ==
  {e \in DOMAIN d.cls : d.cls[e] \cap {"animated-node", "animated-edge"} # {}}

\* the disableAnimations branch of the effect
StopAnimations(p, d) ==
  IF p.disableAnimations THEN [d EXCEPT !.noanim = d.noanim \cup AnimatedElements(d)] ELSE d

\* the end of the effect: r is what setupParticleAnimations gives on d, used
\* unless the particles are disabled; cleanup is the loop the returned
\* function cancels
EffectResult(p, d, ls, r) ==
  IF ParticlesEnabled(p)
  THEN [dom |-> r.dom, loops |-> ls \o r.loops,
        cleanup |-> IF r.loops = <<>> THEN 0 ELSE Len(ls) + 1]
  ELSE [dom |-> d, loops |-> ls, cleanup |-> 0]

\* the effect from the disableAnimations branch on
FinishEffect(p, v, d, ls, currentTime) ==
  EffectResult(p, d, ls, setupParticleAnimations(v, d, Len(ls) + 1, currentTime))

\* the graphic the effect hands to applyCustomTheme, and the one it hands to
\* setupInteractivity
GraphicAtTheme(v, mappings, d) == addActorImages(v, d, mappings)
GraphicAtWiring(p, v, mappings, d) == applyCustomTheme(GraphicAtTheme(v, mappings, d), p.theme)

\* the setup effect on the live graphic d, whose Queries entry is v:
\* addActorImages, applyCustomTheme, setupInteractivity, the
\* disableAnimations branch, the particles
EffectOn(p, v, mappings, d, ls, currentTime) ==
  FinishEffect(p, v,
    StopAnimations(p, setupInteractivity(v, GraphicAtWiring(p, v, mappings, d), p.cbs, p.gen)),
    ls, currentTime)

\* the body of the setup effect on the live graphic d, with the loops ls
SetupEffect(p, svg, mappings, d, ls, currentTime) ==
  IF svg = "" THEN [dom |-> d, loops |-> ls, cleanup |-> 0]
  ELSE EffectOn(p, Queries[d.gid], mappings, d, ls, currentTime)

\* a render of the component whose effect dependencies changed: the
\* container gets a new graphic when svgContent changed, the cleanup of the
\* previous effect run is called, and the effect runs again
Rerender(p, svg, mappings) ==
  /\ setups < MaxSetups
  /\ setups' = setups + 1
  /\ props' = p
  /\ svgContent' = svg
  /\ imageMappings' = mappings
  /\ \E r \in {SetupEffect(p, svg, mappings,
                            IF svg # svgContent THEN FreshDom(svg) ELSE dom,
                            RunCleanup(loops, cleanup), now)} :
       /\ dom' = r.dom
       /\ loops' = r.loops
       /\ cleanup' = r.cleanup

\* no user event yet
NoEvent == [type |-> "none", target |-> 0, gid |-> "", wired |-> <<>>, made |-> <<>>]

\* the listeners of the given type among ls
OfType(ls, type) == SelectSeq(ls, LAMBDA l : l.type = type)

\* preprocessChart not called yet, and its result once called
NoResult == [called |-> FALSE, cleanedChart |-> <<>>, imageMappings |-> EmptyMap]
Result(r) == [called |-> TRUE, cleanedChart |-> r.cleanedChart, imageMappings |-> r.imageMappings]

\* the state after the first render of the component, whose props are drawn
\* from the given sets: nothing is displayed yet, one render is in flight
Mount(charts, themes, flags, callbackSets) ==
  /\ props \in [chart : charts, theme : themes, disableAnimations : flags,
                disableParticles : flags, cbs : callbackSets, gen : {0}]
  /\ mounted = TRUE
  /\ pending = <<props.chart>>
  /\ svgContent = ""
  /\ imageMappings = EmptyMap
  /\ dom = FreshDom("")
  /\ loops = <<>>
  /\ cleanup = 0
  /\ setups = 0
  /\ now = 0
  /\ calls = NoEvent
  /\ src = <<>>
  /\ out = NoResult
  /\ exp = NoExport
  /\ arg = NoArg
  /\ ret = NoReturn

\* a component without theme and callbacks
Init == Mount(Charts, {"none"}, BOOLEAN, {{}})

\* a component with or without callbacks, its animations on, whose first
\* chart is one the layout engine accepts
InitEvents == Mount({"flow", "seq"}, {"none"}, {FALSE}, CallbackSets)

Remove(s, i) == SubSeq(s, 1, i - 1) \o SubSeq(s, i + 1, Len(s))

\* renderDiagram of a pending chart
Rendered(c) ==
  LET r == preprocessChart(ChartSource(c))
  IN [svg |-> MermaidRender(r.cleanedChart), imageMappings |-> r.imageMappings]

\* a pending render resolves: setSvgContent and setImageMappings (one batch)
RenderResolve ==
  \E i \in DOMAIN pending : \E r \in {Rendered(pending[i])} :
    /\ r.svg # "error"
    /\ pending' = Remove(pending, i)
    /\ IF mounted
       THEN Rerender(props, r.svg, r.imageMappings)
       ELSE UNCHANGED <<props, svgContent, imageMappings, dom, loops, cleanup, setups>>
    /\ UNCHANGED <<mounted, now, calls, src, out, exp, arg, ret>>

\* a renderChart that catches the error and clears the state
RenderRejectCleared ==
  \E i \in DOMAIN pending :
    /\ Rendered(pending[i]).svg = "error"
    /\ pending' = Remove(pending, i)
    /\ IF mounted
       THEN Rerender(props, "", EmptyMap)
       ELSE UNCHANGED <<props, svgContent, imageMappings, dom, loops, cleanup, setups>>
    /\ UNCHANGED <<mounted, now, calls, src, out, exp, arg, ret>>

\* mermaid.render rejects: renderChart ends with the error, no state is set
RenderReject ==
  \E i \in DOMAIN pending :
    /\ Rendered(pending[i]).svg = "error"
    /\ pending' = Remove(pending, i)
    /\ UNCHANGED <<props, mounted, svgContent, imageMappings, dom, loops, cleanup, setups, now, calls, src, out, exp, arg, ret>>

\* the chart prop changes: the render effect starts a render
SetChart ==
  \E c \in Charts :
    /\ mounted /\ c # props.chart /\ Len(pending) < MaxPending
    /\ props' = [props EXCEPT !.chart = c]
    /\ pending' = Append(pending, c)
    /\ UNCHANGED <<mounted, svgContent, imageMappings, dom, loops, cleanup, setups, now, calls, src, out, exp, arg, ret>>

SetDisableAnimations ==
  /\ mounted
  /\ Rerender([props EXCEPT !.disableAnimations = ~props.disableAnimations],
              svgContent, imageMappings)
  /\ UNCHANGED <<mounted, pending, now, calls, src, out, exp, arg, ret>>

SetDisableParticles ==
  /\ mounted
  /\ Rerender([props EXCEPT !.disableParticles = ~props.disableParticles],
              svgContent, imageMappings)
  /\ UNCHANGED <<mounted, pending, now, calls, src, out, exp, arg, ret>>

\* a new theme object, or none
SetTheme ==
  \E t \in Themes :
    /\ mounted /\ (t # "none" \/ props.theme # "none")
    /\ Rerender([props EXCEPT !.theme = t], svgContent, imageMappings)
    /\ UNCHANGED <<mounted, pending, now, calls, src, out, exp, arg, ret>>

\* new callback functions, or none
SetCallbacks ==
  \E c \in CallbackSets :
    /\ mounted /\ (c # {} \/ props.cbs # {})
    /\ Rerender([props EXCEPT !.cbs = c, !.gen = props.gen + 1], svgContent, imageMappings)
    /\ UNCHANGED <<mounted, pending, now, calls, src, out, exp, arg, ret>>

\* the component is torn down
Unmount ==
  /\ mounted
  /\ mounted' = FALSE
  /\ loops' = RunCleanup(loops, cleanup)
  /\ cleanup' = 0
  /\ dom' = FreshDom("")
  /\ UNCHANGED <<props, pending, svgContent, imageMappings, setups, now, calls, src, out, exp, arg, ret>>

\* the browser runs the queued frame callback of a loop
Tick ==
  \E i \in DOMAIN loops :
    /\ loops[i].queued # 0
    \* a frame callback runs on a later frame than the one that requested it
    /\ now > loops[i].lastFrame
    /\ loops' = [loops EXCEPT ![i] = animate(loops[i], now)]
    /\ UNCHANGED <<props, mounted, pending, svgContent, imageMappings, dom, cleanup, setups, now, calls, src, out, exp, arg, ret>>

\* time passes
Elapse ==
  /\ now + FrameStep <= MaxTime
  /\ now' = now + FrameStep
  /\ UNCHANGED <<props, mounted, pending, svgContent, imageMappings, dom, loops, cleanup, setups, calls, src, out, exp, arg, ret>>

\* the elements at which a click is heard: those with a listener of their
\* own or of an ancestor
RECURSIVE Heard(_, _, _)
Heard(v, d, e) == d.lst[e] # <<>> \/ (v.parent[e] # 0 /\ Heard(v, d, v.parent[e]))

\* the user clicks element e of the live graphic; a click no listener hears
\* changes nothing
Click ==
  \E e \in DOMAIN dom.lst :
    /\ Heard(Queries[dom.gid], dom, e)
    /\ calls' = [type |-> "click", target |-> e, gid |-> dom.gid,
                 wired |-> OfType(dom.lst[e], "click"),
                 made |-> Bubble(Queries[dom.gid], dom, e)]
    /\ UNCHANGED <<props, mounted, pending, svgContent, imageMappings, dom, loops, cleanup, setups, now, src, out, exp, arg, ret>>

\* the pointer enters or leaves element e, which carries listeners
Hover ==
  \E e \in DOMAIN dom.lst, type \in {"mouseenter", "mouseleave"} :
    /\ dom.lst[e] # <<>>
    /\ calls' = [type |-> type, target |-> e, gid |-> dom.gid,
                 wired |-> OfType(dom.lst[e], type),
                 made |-> CallsOf(Queries[dom.gid], e, dom.lst[e], type)]
    /\ UNCHANGED <<props, mounted, pending, svgContent, imageMappings, dom, loops, cleanup, setups, now, src, out, exp, arg, ret>>

\* preprocessChart on a source of its own
Preprocess ==
  /\ ~out.called
  /\ out' = Result(preprocessChart(src))
  /\ UNCHANGED <<props, mounted, pending, svgContent, imageMappings, dom, loops, cleanup, setups, now, calls, src, exp, arg, ret>>

\* the component over time: renders, flag changes, frames and the clock.
\* User events are left out: they write calls only, which no action reads.
Next ==
  \/ RenderResolve \/ RenderReject \/ SetChart
  \/ SetDisableAnimations \/ SetDisableParticles
  \/ Unmount \/ Tick \/ Elapse

Spec == Init /\ [][Next]_vars

\* the component and its user: renders, new callbacks, clicks and hovers.
\* Frames and the clock are left out: they write loops and now only, which
\* no listener reads.
NextEvents ==
  \/ RenderResolve \/ RenderReject \/ SetChart
  \/ SetCallbacks
  \/ Click \/ Hover

SpecEvents == InitEvents /\ [][NextEvents]_vars

\* preprocessChart on every source of at most MaxSrcLen tokens
Alphabet == {KW, IMG, SP, NL, "A"}

Sources == UNION {[1..n -> Alphabet] : n \in 0..MaxSrcLen}

InitChart ==
  /\ src \in Sources
  /\ out = NoResult
  /\ exp = NoExport
  /\ arg = NoArg
  /\ ret = NoReturn
  /\ props = [chart |-> "bad", theme |-> "none", disableAnimations |-> FALSE,
              disableParticles |-> FALSE, cbs |-> {}, gen |-> 0]
  /\ mounted = FALSE
  /\ pending = <<>>
  /\ svgContent = ""
  /\ imageMappings = EmptyMap
  /\ dom = FreshDom("")
  /\ loops = <<>>
  /\ cleanup = 0
  /\ setups = 0
  /\ now = 0
  /\ calls = NoEvent

NextChart == Preprocess

SpecChart == InitChart /\ [][NextChart]_vars

\* a themed component: renders, new themes, frames and the clock
InitTheme == Mount({"flow", "seq"}, Themes, {FALSE}, {{}})

NextTheme ==
  \/ RenderResolve \/ RenderReject \/ SetChart
  \/ SetTheme
  \/ Tick \/ Elapse

SpecTheme == InitTheme /\ [][NextTheme]_vars

\* a component whose chart prop changed while the render of its first chart
\* was in flight: both renders are pending, the first chart's first
InitRace ==
  /\ \E first \in Charts :
       /\ props \in [chart : Charts \ {first}, theme : {"none"},
                      disableAnimations : BOOLEAN, disableParticles : BOOLEAN,
                      cbs : {{}}, gen : {0}]
       /\ pending = <<first, props.chart>>
  /\ mounted = TRUE
  /\ svgContent = ""
  /\ imageMappings = EmptyMap
  /\ dom = FreshDom("")
  /\ loops = <<>>
  /\ cleanup = 0
  /\ setups = 0
  /\ now = 0
  /\ calls = NoEvent
  /\ src = <<>>
  /\ out = NoResult
  /\ exp = NoExport
  /\ arg = NoArg
  /\ ret = NoReturn

\* the two renders settle in either order; frames and the clock
NextRace ==
  \/ RenderResolve \/ RenderReject
  \/ Tick \/ Elapse

SpecRace == InitRace /\ [][NextRace]_vars

(***************************************************************************)
(* Calls of single functions on arguments of their own.                    *)
(***************************************************************************)
\* the variables of the component and of the export
compVars ==
  <<props, mounted, pending, svgContent, imageMappings, dom, loops, cleanup, setups, now,
    calls, src, out, exp>>

\* no component is mounted
NoComponent ==
  /\ props = [chart |-> "bad", theme |-> "none", disableAnimations |-> FALSE,
              disableParticles |-> FALSE, cbs |-> {}, gen |-> 0]
  /\ mounted = FALSE
  /\ pending = <<>>
  /\ svgContent = ""
  /\ imageMappings = EmptyMap
  /\ dom = FreshDom("")
  /\ loops = <<>>
  /\ cleanup = 0
  /\ setups = 0
  /\ now = 0
  /\ calls = NoEvent
  /\ src = <<>>
  /\ out = NoResult
  /\ exp = NoExport

\* a node container holds at most MaxLabels elements besides its shape
MaxLabels == 2

\* what a child of a node container may be: an element one of the label
\* selectors matches, or one that none matches
LabelKinds ==
  { [tag |-> "text", cls |-> {}], [tag |-> "g", cls |-> {"nodeLabel"}],
    [tag |-> "g", cls |-> {"label"}], [tag |-> "tspan", cls |-> {}],
    [tag |-> "foreignObject", cls |-> {}], [tag |-> "title", cls |-> {}] }

\* its text: blank, short, of 199 characters, of 200, or of two lines
LabelTexts == { <<SP>>, <<"A">>, <<"most">>, <<"bulk">>, <<"B", SP, NL, "A">> }

\* a node container with a shape and the given children
NodeTree(shape, labels) ==
  << El("g", {"node"}, 0, <<>>, 0, "", 0, 0), El(shape, {}, 1, <<>>, 0, "", 0, 0) >>
  \o [j \in DOMAIN labels |->
        El(labels[j].kind.tag, labels[j].kind.cls, 1, labels[j].txt, 0, "", 0, 0)]

\* the children a node container may hold
NodeLabels == UNION {[1..n -> [kind : LabelKinds, txt : LabelTexts]] : n \in 0..MaxLabels}

\* a call of the function fn on element e of the graphic g
Call(fn, g, e) == [fn |-> fn, g |-> g, element |-> e]

\* findNodeLabel on every element of the graphics of the catalogue and of
\* the node containers above
InitNodeLabel ==
  /\ \/ \E shape \in {"rect", "polygon"}, labels \in NodeLabels :
          \E e \in 1..(2 + Len(labels)) : arg = Call("findNodeLabel", NodeTree(shape, labels), e)
     \/ \E g \in {GraphicFlow, GraphicSeq} : \E e \in Elems(g) : arg = Call("findNodeLabel", g, e)
  /\ ret = NoReturn
  /\ NoComponent

CallFindNodeLabel ==
  /\ arg.fn = "findNodeLabel" /\ ~ret.called
  /\ ret' = Return(findNodeLabel(arg.g, arg.element))
  /\ UNCHANGED <<compVars, arg>>

SpecNodeLabel == InitNodeLabel /\ [][CallFindNodeLabel]_vars

\* the container of an edge holds at most MaxSiblings children
MaxSiblings == 5

\* what a child of the container may be: an edge, an edge label with its
\* text and the x of its centre (the edges are centred at 0), a message
\* text, or a group that is neither
SiblingKinds ==
  { [kind |-> "edge", txt |-> <<>>, x |-> 0],
    [kind |-> "label", txt |-> <<"A">>, x |-> 100],
    [kind |-> "label", txt |-> <<"B">>, x |-> 199],
    [kind |-> "label", txt |-> <<"A">>, x |-> 200],
    [kind |-> "label", txt |-> <<>>, x |-> 100],
    [kind |-> "message", txt |-> <<"C">>, x |-> 100],
    [kind |-> "other", txt |-> <<>>, x |-> 0] }

\* the elements of a child of the container, tree being the elements before it
Fragment(slot, tree) ==
  CASE slot.kind = "edge" -> <<El("path", {"flowchart-link"}, 1, <<>>, 100, "", 0, 0)>>
    [] slot.kind = "label" ->
         << El("g", {"edgeLabel"}, 1, <<>>, 0, "", slot.x, 0),
            El("text", {}, Len(tree) + 1, slot.txt, 0, "", slot.x, 0) >>
    [] slot.kind = "message" -> <<El("text", {"messageText"}, 1, slot.txt, 0, "", slot.x, 0)>>
    [] OTHER -> <<El("g", {}, 1, <<>>, 0, "", 0, 0)>>

RECURSIVE EdgeTreeFrom(_, _)
EdgeTreeFrom(slots, tree) ==
  IF slots = <<>> THEN tree
  ELSE EdgeTreeFrom(Tail(slots), tree \o Fragment(Head(slots), tree))

\* a container and its children
EdgeTree(slots) == EdgeTreeFrom(slots, <<El("g", {"edgePaths"}, 0, <<>>, 0, "", 0, 0)>>)

\* the children the container of an edge may hold
Siblings == UNION {[1..n -> SiblingKinds] : n \in 1..MaxSiblings}

\* the paths and the lines of a graphic
Lines(g) == {x \in Elems(g) : g[x].tag \in {"path", "line"}}

\* findEdgeLabel on every path and line of the graphics of the catalogue
\* and of the containers above
InitEdgeLabel ==
  /\ \/ \E slots \in Siblings : \E g \in {EdgeTree(slots)} :
          \E e \in Lines(g) : arg = Call("findEdgeLabel", g, e)
     \/ \E g \in {GraphicFlow, GraphicSeq} : \E e \in Lines(g) : arg = Call("findEdgeLabel", g, e)
  /\ ret = NoReturn
  /\ NoComponent

CallFindEdgeLabel ==
  /\ arg.fn = "findEdgeLabel" /\ ~ret.called
  /\ ret' = Return(findEdgeLabel(arg.g, arg.element))
  /\ UNCHANGED <<compVars, arg>>

SpecEdgeLabel == InitEdgeLabel /\ [][CallFindEdgeLabel]_vars

\* a path is at most MaxPathLength pixels long
MaxPathLength == 300

\* calculateDuration on every whole path length up to MaxPathLength
InitDuration ==
  /\ arg \in [fn : {"calculateDuration"}, pathLength : 0..MaxPathLength]
  /\ ret = NoReturn
  /\ NoComponent

CallCalculateDuration ==
  /\ arg.fn = "calculateDuration" /\ ~ret.called
  /\ ret' = Return(calculateDuration(arg.pathLength))
  /\ UNCHANGED <<compVars, arg>>

SpecDuration == InitDuration /\ [][CallCalculateDuration]_vars

\* a generated graphic holds at most MaxPaths groups of elements
MaxPaths == 3

\* what a group may be: a path or a line of one of the classes of
\* MERMAID_SELECTORS.edges, or a path without such a class at the root, in a
\* plain group, in a node container or in a marker, directly or one group
\* deeper
PathKinds ==
  {"link", "message0", "message1", "edgePath", "relation", "plain", "grouped",
   "node", "nodeDeep", "marker", "markerDeep"}

\* the elements of a group, tree being the elements before it
PathFragment(kind, tree) ==
  LET n == Len(tree)
      Path(cls, parent) == El("path", cls, parent, <<>>, 100, "", 0, 0)
      Group(tag, cls, parent) == El(tag, cls, parent, <<>>, 0, "", 0, 0)
  IN CASE kind = "link" -> <<Path({"flowchart-link"}, 0)>>
       [] kind = "message0" -> <<El("line", {"messageLine0"}, 0, <<>>, 100, "", 0, 0)>>
       [] kind = "message1" -> <<El("line", {"messageLine1"}, 0, <<>>, 100, "", 0, 0)>>
       [] kind = "edgePath" -> <<Group("g", {"edgePath"}, 0), Path({}, n + 1)>>
       [] kind = "relation" -> <<Path({"relation"}, 0)>>
       [] kind = "plain" -> <<Path({}, 0)>>
       [] kind = "grouped" -> <<Group("g", {}, 0), Path({}, n + 1)>>
       [] kind = "node" -> <<Group("g", {"node"}, 0), Path({}, n + 1)>>
       [] kind = "nodeDeep" ->
            <<Group("g", {"node"}, 0), Group("g", {}, n + 1), Path({}, n + 2)>>
       [] kind = "marker" -> <<Group("marker", {}, 0), Path({}, n + 1)>>
       [] OTHER ->
            <<Group("marker", {}, 0), Group("g", {}, n + 1), Path({}, n + 2)>>

RECURSIVE PathTreeFrom(_, _)
PathTreeFrom(kinds, tree) ==
  IF kinds = <<>> THEN tree
  ELSE PathTreeFrom(Tail(kinds), tree \o PathFragment(Head(kinds), tree))

PathTree(kinds) == PathTreeFrom(kinds, <<>>)

\* findEdgePaths on the graphics of the catalogue and on the generated ones
InitEdgePaths ==
  /\ \/ \E n \in 1..MaxPaths : \E kinds \in [1..n -> PathKinds] :
          \E g \in {PathTree(kinds)} : arg = Call("findEdgePaths", g, 0)
     \/ \E g \in {GraphicFlow, GraphicSeq} : arg = Call("findEdgePaths", g, 0)
  /\ ret = NoReturn
  /\ NoComponent

CallFindEdgePaths ==
  /\ arg.fn = "findEdgePaths" /\ ~ret.called
  /\ ret' = Return(findEdgePaths(arg.g))
  /\ UNCHANGED <<compVars, arg>>

SpecEdgePaths == InitEdgePaths /\ [][CallFindEdgePaths]_vars

\* the frames of a call come TimeStep milliseconds apart, up to MaxFrames of
\* them after the start of the loop
TimeStep == 250
MaxFrames == 30

\* the lengths of the path of the particle: below, between and above the
\* lengths whose duration the limits replace
PathLengths == {100, 200, 300}

\* the time the windows before and after the window of the particle take
OtherWindows == {0, minDuration}

\* the loop starts at one of these times
StartTimes == {0, 1000}

\* the circles of one particle, as created or as a frame inside the window
\* of the particle has left them
CirclesBefore(animations, circles, moved) ==
  IF moved
  THEN updateParticlePosition(animations[2],
         animations[2].startTime + TimeStep, FALSE,
         animations[2].duration, animations[2].startTime,
         updateParticlePosition(animations[1],
           animations[1].startTime + TimeStep, TRUE,
           animations[1].duration, animations[1].startTime, circles))
  ELSE circles

\* updateParticlePosition on the core or on the outer glow of the particle
\* of one path, at a frame of a loop that holds its window
InitParticle ==
  /\ \E pathLength \in PathLengths, lead \in OtherWindows, tail \in OtherWindows,
        sequenceStartTime \in StartTimes, k \in 0..MaxFrames, isCore \in BOOLEAN,
        moved \in BOOLEAN :
       \E r \in {createParticlesForPath(1, pathLength, sequenceStartTime + lead, 0)} :
         arg = [fn |-> "updateParticlePosition",
                animation |-> r.animations[IF isCore THEN 1 ELSE 2],
                currentTime |-> sequenceStartTime + k * TimeStep,
                isCore |-> isCore,
                totalSequenceDuration |-> lead + r.animations[1].duration + tail,
                sequenceStartTime |-> sequenceStartTime,
                circles |-> CirclesBefore(r.animations, r.circles, moved)]
  /\ ret = NoReturn
  /\ NoComponent

CallUpdateParticlePosition ==
  /\ arg.fn = "updateParticlePosition" /\ ~ret.called
  /\ ret' = Return(updateParticlePosition(arg.animation, arg.currentTime, arg.isCore,
                                          arg.totalSequenceDuration,
                                          arg.sequenceStartTime, arg.circles))
  /\ UNCHANGED <<compVars, arg>>

SpecParticle == InitParticle /\ [][CallUpdateParticlePosition]_vars

\* the progress of a particle is a whole number of steps out of ProgressSteps
ProgressSteps == 100

\* calculateOpacity on two progresses p / d and q / d between 0 and 1
InitOpacity ==
  /\ arg \in [fn : {"calculateOpacity"}, p : 0..ProgressSteps, q : 0..ProgressSteps,
               d : {ProgressSteps}]
  /\ ret = NoReturn
  /\ NoComponent

CallCalculateOpacity ==
  /\ arg.fn = "calculateOpacity" /\ ~ret.called
  /\ ret' = Return(<<calculateOpacity(arg.p, arg.d), calculateOpacity(arg.q, arg.d)>>)
  /\ UNCHANGED <<compVars, arg>>

SpecOpacity == InitOpacity /\ [][CallCalculateOpacity]_vars

(***************************************************************************)
(* An export of the live graphic (page.tsx: handleExport), step by step.   *)
(* A step is one task of the browser with the microtasks it starts.        *)
(***************************************************************************)
\* handleExport(f): the export function runs up to its first await
ExportStart ==
  \E f \in Formats :
    /\ mounted /\ svgContent # "" /\ exp.format = "none"
    /\ \E r \in {inlineStyles(dom, loops,
                               querySelectorAllImage(Queries[dom.gid], dom, imageMappings))} :
         /\ dom' = r.svgElement
         /\ exp' = promiseAll([NoExport EXCEPT !.format = f, !.pc = "inlining",
                                               !.promise = "pending",
                                               !.svgClone = r.svgClone,
                                               !.images = r.images])
    /\ UNCHANGED <<props, mounted, pending, svgContent, imageMappings, loops, cleanup, setups, now, calls, src, out, arg, ret>>

\* fetch(url) of an image settles
FetchSettle ==
  \E k \in DOMAIN exp.images, ok \in BOOLEAN :
    /\ exp.images[k].stage = "fetch"
    /\ exp' = promiseAll(fetchSettled(exp, k, ok))
    /\ UNCHANGED <<props, mounted, pending, svgContent, imageMappings, dom, loops, cleanup, setups, now, calls, src, out, arg, ret>>

\* response.blob() of an image settles
BlobSettle ==
  \E k \in DOMAIN exp.images, ok \in BOOLEAN :
    /\ exp.images[k].stage = "blob"
    /\ exp' = promiseAll(blobSettled(exp, k, ok))
    /\ UNCHANGED <<props, mounted, pending, svgContent, imageMappings, dom, loops, cleanup, setups, now, calls, src, out, arg, ret>>

\* the FileReader of an image ends
ReadSettle ==
  \E k \in DOMAIN exp.images, ok \in BOOLEAN :
    /\ exp.images[k].stage = "read"
    /\ exp' = promiseAll(readerSettled(exp, k, ok))
    /\ UNCHANGED <<props, mounted, pending, svgContent, imageMappings, dom, loops, cleanup, setups, now, calls, src, out, arg, ret>>

\* the Image element of loadImageAsDataUri loads or fails
ImageSettle ==
  \E k \in DOMAIN exp.images, ok \in BOOLEAN :
    /\ exp.images[k].stage = "img"
    /\ exp' = promiseAll(imageSettled(exp, k, ok))
    /\ UNCHANGED <<props, mounted, pending, svgContent, imageMappings, dom, loops, cleanup, setups, now, calls, src, out, arg, ret>>

\* the serialized clone loads into the Image of svgToCanvas, or fails
SvgLoad ==
  \E loaded \in BOOLEAN, ctx \in BOOLEAN :
    /\ exp.pc = "loading"
    /\ exp' = svgLoaded(exp, loaded, ctx)
    /\ UNCHANGED <<props, mounted, pending, svgContent, imageMappings, dom, loops, cleanup, setups, now, calls, src, out, arg, ret>>

\* the browser calls the callback of canvas.toBlob, with a blob or null
ToBlob ==
  \E blob \in BOOLEAN :
    /\ exp.pc = "encoding"
    /\ exp' = toBlobCallback(exp, blob)
    /\ UNCHANGED <<props, mounted, pending, svgContent, imageMappings, dom, loops, cleanup, setups, now, calls, src, out, arg, ret>>

\* a step of the export
ExportStep ==
  \/ ExportStart \/ FetchSettle \/ BlobSettle \/ ReadSettle \/ ImageSettle
  \/ SvgLoad \/ ToBlob

\* an animated graphic and one export of it: the render, a particle flag
\* change, frames, the clock and the steps of the export
InitExport == Mount({"flow", "seq"}, {"none"}, {FALSE}, {{}})

NextExport ==
  \/ RenderResolve \/ SetDisableParticles
  \/ Tick \/ Elapse
  \/ ExportStart \/ FetchSettle \/ BlobSettle \/ ReadSettle \/ ImageSettle
  \/ SvgLoad \/ ToBlob

SpecExport == InitExport /\ [][NextExport]_vars

(***************************************************************************)
(* Properties of the particle loop.                                        *)
(***************************************************************************)
\* the elements any of MERMAID_SELECTORS.edges matches, per graphic
EdgeElements == [gid \in GraphicIds |-> UNION {EdgeSelector(Graphic(gid), k) : k \in 1..8}]

\* the length of the window of the k-th edge of graphic gid
WindowOf(gid, k) == calculateDuration(Queries[gid].pathLength[Queries[gid].edges[k]])

\* the start of that window on the loop timeline; k may be one past the last edge
RECURSIVE WindowStart(_, _)
WindowStart(gid, k) == IF k = 1 THEN 0 ELSE WindowStart(gid, k - 1) + WindowOf(gid, k - 1)

\* the length of one loop over the edges of graphic gid
LoopLength(gid) == WindowStart(gid, Len(Queries[gid].edges) + 1)

\* the edge whose turn it is t milliseconds after the start of the loop
EdgeDue(gid, t) ==
  LET c == t % LoopLength(gid)
      k == CHOOSE j \in DOMAIN Queries[gid].edges :
             WindowStart(gid, j) <= c /\ c < WindowStart(gid, j + 1)
  IN Queries[gid].edges[k]

\* the edges the last frame of the loop found inside their window
ActiveEdges(loop) == {loop.animations[a].path : a \in loop.active}

\* the circles of the particles of edge path
CirclesOf(loop, path) ==
  UNION {{loop.animations[a].element, loop.animations[a].glowElement} :
           a \in {b \in DOMAIN loop.animations : loop.animations[b].path = path}}

\* C1: after every frame of a loop exactly one edge is inside its window, it
\* is the edge whose turn it is in traversal order at the time of the frame
\* (the first edge again once the window of the last edge has ended), and
\* every particle of every other edge has opacity 0.
C1_OneEdgeAtATime ==
  \A i \in DOMAIN loops :
    LET loop == loops[i]
        due == EdgeDue(loop.graphic, loop.lastFrame - loop.sequenceStartTime)
    IN /\ ActiveEdges(loop) = {due}
       /\ \A a \in DOMAIN loop.animations :
            loop.animations[a].path # due
              => \A c \in CirclesOf(loop, loop.animations[a].path) :
                   loop.circles[c].opacity = <<0, 1>>

\* a frame in the second round of a loop over several edges: the first edge
\* is active again
C1_Wrapped ==
  \E i \in DOMAIN loops :
    /\ Len(Queries[loops[i].graphic].edges) >= 2
    /\ loops[i].lastFrame - loops[i].sequenceStartTime >= LoopLength(loops[i].graphic)
    /\ ActiveEdges(loops[i]) = {Queries[loops[i].graphic].edges[1]}

\* C2: every element that MERMAID_SELECTORS.edges matches has exactly one
\* particle, hence one window, in the loop of its graphic, also when the
\* graphic holds solid and dashed message lines.
C2_EveryEdgeAnimated ==
  \A i \in DOMAIN loops :
    \A e \in EdgeElements[loops[i].graphic] :
      Cardinality({a \in DOMAIN loops[i].animations :
                     a % 2 = 1 /\ loops[i].animations[a].path = e}) = 1

\* C3: no frame of a loop runs after the cleanup function of the loop was
\* called, whenever between two frames that was.
C3_NoFrameAfterCleanup == \A i \in DOMAIN loops : ~loops[i].late

\* a loop cancelled between two frames, and the time of the next frame come
C3_CancelledBetweenFrames ==
  \E i \in DOMAIN loops :
    /\ loops[i].cancelled /\ loops[i].frames >= 2
    /\ loops[i].queued = 0 /\ now > loops[i].lastFrame

\* the loops with a frame callback queued
Running == {i \in DOMAIN loops : loops[i].queued # 0}

\* C4: at most one loop runs, the one started last; every loop before it was
\* cancelled, and the timeline of a loop starts at the loop's own start, not
\* before the last frame of an earlier loop, and spans the windows of the
\* edges of its graphic.
C4_OneLoop ==
  /\ Cardinality(Running) <= 1
  /\ Running \subseteq {Len(loops)}
  /\ \A i \in DOMAIN loops :
       /\ loops[i].animations[1].startTime = loops[i].sequenceStartTime
       /\ loops[i].totalSequenceDuration = LoopLength(loops[i].graphic)
       /\ \A j \in 1..(i - 1) :
            /\ loops[j].cancelled
            /\ loops[j].lastFrame <= loops[i].sequenceStartTime

\* a loop that ran, and a later loop running on a later timeline
C4_Restarted ==
  /\ Len(loops) >= 2
  /\ loops[1].frames >= 2
  /\ loops[2].queued # 0
  /\ loops[2].sequenceStartTime > loops[1].sequenceStartTime

(***************************************************************************)
(* Properties of the setup effect.                                         *)
(***************************************************************************)
\* a graphic is displayed
Displayed == mounted /\ dom.gid # ""

\* C5: an element carries at most one listener per event type and element
\* kind, and one event calls a callback at most once.
C5_SingleBinding ==
  /\ \A e \in DOMAIN dom.lst :
       \A i, j \in DOMAIN dom.lst[e] :
         (i # j /\ dom.lst[e][i].type = dom.lst[e][j].type)
           => dom.lst[e][i].kind # dom.lst[e][j].kind
  /\ \A i, j \in DOMAIN calls.made : i # j => calls.made[i].cb # calls.made[j].cb

\* C6: with disableAnimations set, the node shapes and the edges of the
\* displayed graphic carry animated-node and animated-edge.
C6_ClassesKept ==
  (Displayed /\ props.disableAnimations)
    => /\ \A e \in Queries[dom.gid].nodeShapes : "animated-node" \in dom.cls[e]
       /\ \A e \in SeqToSet(Queries[dom.gid].edges) : "animated-edge" \in dom.cls[e]

\* C7: with disableParticles set and disableAnimations not, the node shapes,
\* the edges and the labels of the displayed graphic carry their classes.
C7_DecorationsKept ==
  (Displayed /\ props.disableParticles /\ ~props.disableAnimations)
    => /\ \A e \in Queries[dom.gid].nodeShapes : "animated-node" \in dom.cls[e]
       /\ \A e \in SeqToSet(Queries[dom.gid].edges) : "animated-edge" \in dom.cls[e]
       /\ \A e \in Queries[dom.gid].labels : "animated-label" \in dom.cls[e]

\* C9: in the displayed graphic an actor whose name the image mappings hold
\* has one image, any other actor has none.
C9_OneImagePerActor ==
  Displayed
    => \A a \in Queries[dom.gid].actors :
         dom.img[a] = IF Queries[dom.gid].actorName[a] \in DOMAIN imageMappings THEN 1 ELSE 0

(***************************************************************************)
(* Properties of preprocessChart.                                          *)
(***************************************************************************)
\* split('\n')
RECURSIVE Split(_)
Split(s) ==
  LET e == LineEnd(s, 1)
  IN IF e >= Len(s) THEN <<s>>
     ELSE <<SubSeq(s, 1, e)>> \o Split(SubSeq(s, e + 2, Len(s)))

\* C8: a line of the source without an img: token is the line of the same
\* number of the cleaned source.
C8_OtherLinesUnchanged ==
  out.called
    => \A k \in DOMAIN Split(src) :
         IMG \notin SeqToSet(Split(src)[k])
           => /\ k \in DOMAIN Split(out.cleanedChart)
              /\ Split(out.cleanedChart)[k] = Split(src)[k]

(***************************************************************************)
(* Properties of the events.                                               *)
(***************************************************************************)
\* the calls the last event made at its target
MadeAtTarget == SelectSeq(calls.made, LAMBDA c : c.at = calls.target)

\* the label findNodeLabel or findEdgeLabel resolves for element e of graphic gid
Resolved(gid, kind, e) ==
  IF kind = "node" THEN Queries[gid].nodeLabel[e] ELSE Queries[gid].edgeLabel[e]

\* C10: every listener the target of an event carried for it made one call
\* of its callback; the listener of a node or an edge passed null on
\* mouseleave and otherwise the element with the label resolved for it,
\* undefined when none is; null is no such event.
C10_EventDelivered ==
  /\ Len(MadeAtTarget) = Len(calls.wired)
  /\ \A i \in DOMAIN calls.wired :
       /\ MadeAtTarget[i].cb = calls.wired[i].cb
       /\ MadeAtTarget[i].gen = calls.wired[i].gen
       /\ calls.wired[i].kind \in {"node", "edge"}
            => IF calls.type = "mouseleave"
               THEN MadeAtTarget[i].data = NULL
               ELSE /\ MadeAtTarget[i].data # NULL
                    /\ ~MadeAtTarget[i].data.null
                    /\ MadeAtTarget[i].data.element = calls.target
                    /\ MadeAtTarget[i].data.label
                         = Resolved(calls.gid, calls.wired[i].kind, calls.target)

\* a hover over a wired element for which no label is resolved
C10_HoverWithoutLabel ==
  /\ calls.type = "mouseenter"
  /\ calls.wired # <<>>
  /\ calls.wired[1].kind \in {"node", "edge"}
  /\ MadeAtTarget # <<>>
  /\ MadeAtTarget[1].data.label = UNDEFINED
  /\ ~MadeAtTarget[1].data.null

(***************************************************************************)
(* Properties of the schedule of a loop.                                   *)
(***************************************************************************)
\* the edges of a loop in traversal order: the k-th edge owns the animations
\* 2k - 1 (core) and 2k (outer glow)
EdgeCount(loop) == Len(loop.animations) \div 2
StartOf(loop, k) == loop.animations[2 * k - 1].startTime
DurationOf(loop, k) == loop.animations[2 * k - 1].duration

\* C18: in every loop the window of the first edge starts at the time of
\* the setup (the time of the first frame, which the setup runs itself),
\* and the window of every later edge starts where the window of the edge
\* before it ends: no gap, no overlap.
C18_WindowsChained ==
  \A i \in DOMAIN loops :
    LET loop == loops[i]
    IN /\ loop.frames = 1 => StartOf(loop, 1) = loop.lastFrame
       /\ StartOf(loop, 1) = loop.sequenceStartTime
       /\ \A k \in 1..(EdgeCount(loop) - 1) :
            StartOf(loop, k + 1) = StartOf(loop, k) + DurationOf(loop, k)
       /\ \A k \in 1..EdgeCount(loop) :
            /\ loop.animations[2 * k].startTime = StartOf(loop, k)
            /\ loop.animations[2 * k].duration = DurationOf(loop, k)

\* a loop over several edges of different durations, set up after time 0,
\* has run its first frame only
C18_SetUpLater ==
  \E i \in DOMAIN loops :
    /\ EdgeCount(loops[i]) >= 2
    /\ DurationOf(loops[i], 1) # DurationOf(loops[i], 2)
    /\ loops[i].frames = 1 /\ loops[i].lastFrame > 0

\* the sum of the durations of the edges k.. of a loop
RECURSIVE DurationsFrom(_, _)
DurationsFrom(loop, k) ==
  IF k > EdgeCount(loop) THEN 0 ELSE DurationOf(loop, k) + DurationsFrom(loop, k + 1)

\* C19: the total duration of a loop is the sum of the durations of its
\* edges, before and after every frame (it is the sum of the durations the
\* path lengths of the graphic give, whatever frames have run), and the
\* windows [start, start + duration) of two edges never overlap.
C19_TotalIsSum ==
  \A i \in DOMAIN loops :
    LET loop == loops[i]
    IN /\ loop.totalSequenceDuration = DurationsFrom(loop, 1)
       /\ loop.totalSequenceDuration = LoopLength(loop.graphic)
       /\ \A j, k \in 1..EdgeCount(loop) :
            j # k => \/ StartOf(loop, j) + DurationOf(loop, j) <= StartOf(loop, k)
                     \/ StartOf(loop, k) + DurationOf(loop, k) <= StartOf(loop, j)

\* a loop over several edges has run frames after the first one, one of
\* them outside the window of the first edge
C19_LoopHasRun ==
  \E i \in DOMAIN loops :
    /\ EdgeCount(loops[i]) >= 2
    /\ loops[i].frames >= 2
    /\ loops[i].lastFrame >= StartOf(loops[i], 2)
    /\ loops[i].totalSequenceDuration > DurationOf(loops[i], 1)

\* C20: calculateDuration(pathLength) is pathLength * 15 clamped to
\* 2000..3500: 2000 for the length 0, 3500 for every length of at least
\* 3500 / 15, never less than 2000 nor more than 3500, and no shorter path
\* gets a longer duration.
C20_Clamped ==
  (arg.fn = "calculateDuration" /\ ret.called)
    => LET n == arg.pathLength
           d == ret.value
       IN /\ d = (IF n * 15 < 2000 THEN 2000 ELSE IF n * 15 > 3500 THEN 3500 ELSE n * 15)
          /\ n = 0 => d = 2000
          /\ n * 15 >= 3500 => d = 3500
          /\ d >= 2000 /\ d <= 3500
          /\ \A m \in 0..n : calculateDuration(m) <= d

\* calculateDuration was called on a length whose duration lies strictly
\* between the two limits
C20_BetweenLimits ==
  /\ arg.fn = "calculateDuration" /\ ret.called
  /\ ret.value > 2000 /\ ret.value < 3500
  /\ ret.value = arg.pathLength * 15

\* C21 as stated: the duration of a path of length 100 is 1500 ms.
C21_Length100Gives1500 ==
  (arg.fn = "calculateDuration" /\ ret.called /\ arg.pathLength = 100) => ret.value = 1500

\* C21: the duration of a path of length 100 is the lower limit, 2000 ms:
\* 100 * 15 = 1500 lies below it.
C21_Length100Gives2000 ==
  (arg.fn = "calculateDuration" /\ ret.called /\ arg.pathLength = 100)
    => ret.value = 2000 /\ arg.pathLength * 15 = 1500

\* calculateDuration was called on the length 100
C21_CalledOn100 == arg.fn = "calculateDuration" /\ ret.called /\ arg.pathLength = 100

(***************************************************************************)
(* Properties of the label searches.                                       *)
(***************************************************************************)
\* the container a node label is searched in
LabelContainer(g, element) ==
  IF g[element].tag \in {"rect", "circle", "path", "image"} THEN g[element].parent
  ELSE element

\* whether element e of g is a candidate of priority k: a text element, a
\* node label, a generic label, a text span, a rich-text element
IsCandidate(g, e, k) ==
  CASE k = 1 -> g[e].tag = "text"
    [] k = 2 -> "nodeLabel" \in g[e].cls
    [] k = 3 -> "label" \in g[e].cls
    [] k = 4 -> g[e].tag = "tspan"
    [] k = 5 -> g[e].tag = "foreignObject"

\* the candidates of priority k in the container c, and the trimmed text of
\* the first one
CandidatesIn(g, c, k) == {e \in Desc(g, c) : IsCandidate(g, e, k)}
CandidateText(g, c, k) == trim(textContent(g, First(CandidatesIn(g, c, k))))

Qualifies(g, c, k) ==
  /\ CandidatesIn(g, c, k) # {}
  /\ CandidateText(g, c, k) # <<>>
  /\ Length(CandidateText(g, c, k)) < 200

\* the lines of the flattened text of the container that are not blank
LinesOf(g, c) == Split(trim(textContent(g, c)))
NonBlank(g, c) == {i \in DOMAIN LinesOf(g, c) : trim(LinesOf(g, c)[i]) # <<>>}

\* the label the fallback gives
FallbackLabel(g, c) ==
  IF NonBlank(g, c) = {} THEN UNDEFINED
  ELSE LET line == LinesOf(g, c)[First(NonBlank(g, c))]
       IN IF Length(line) < 200 THEN Some(trim(line)) ELSE UNDEFINED

\* C16: findNodeLabel searches the parent of a leaf shape (the element
\* itself otherwise) and returns the trimmed text of the first candidate in
\* the order text, node label, generic label, text span, rich text whose
\* trimmed text is non-empty and shorter than 200 characters; without such a
\* candidate, the first non-blank line of the flattened text when it is
\* shorter than 200 characters, else no label.  The rectangle of the node
\* whose sibling holds "Start Process" resolves to "Start Process".
C16_NodeLabel ==
  (arg.fn = "findNodeLabel" /\ ret.called)
    => LET g == arg.g
           c == LabelContainer(g, arg.element)
           qualified == {k \in 1..5 : Qualifies(g, c, k)}
       IN /\ qualified # {} => ret.value = Some(CandidateText(g, c, First(qualified)))
          /\ qualified = {} => ret.value = FallbackLabel(g, c)
          /\ (g = GraphicFlow /\ arg.element = 9)
               => ret.value = Some(<<"Start", SP, "Process">>)

\* findNodeLabel was called on a rectangle whose container holds two
\* qualifying candidates of different texts, the one of lower priority first
\* in the document, and returned the text of the one of higher priority
C16_PriorityBeforeOrder ==
  /\ arg.fn = "findNodeLabel" /\ ret.called
  /\ arg.g[arg.element].tag = "rect"
  /\ \E k, l \in 1..5 :
       /\ k < l
       /\ Qualifies(arg.g, 1, k) /\ Qualifies(arg.g, 1, l)
       /\ First(CandidatesIn(arg.g, 1, l)) < First(CandidatesIn(arg.g, 1, k))
       /\ CandidateText(arg.g, 1, k) # CandidateText(arg.g, 1, l)
       /\ ret.value = Some(CandidateText(arg.g, 1, k))

\* the texts of the labels and the connecting lines the container c holds
LabelTextsIn(g, c) ==
  {e \in Desc(g, c) :
     \/ "messageText" \in g[e].cls
     \/ g[e].tag = "text" /\ \E a \in Anc(g, e) : "edgeLabel" \in g[a].cls}
LinesIn(g, c) == {e \in Desc(g, c) : g[e].tag = "path"}

\* the position of the child e among the children of its parent
Position(g, e) == Cardinality({x \in Children(g, g[e].parent) : x <= e})

\* the text of a label-classed sibling
TextOfSibling(g, x) ==
  LET texts == {t \in Desc(g, x) : g[t].tag = "text"}
  IN IF texts = {} THEN <<>> ELSE trim(textContent(g, First(texts)))

\* the label-classed siblings with a text at most 2 positions from the edge
NearSiblings(g, e) ==
  {x \in Children(g, g[e].parent) :
     /\ "edgeLabel" \in g[x].cls
     /\ Position(g, x) - Position(g, e) \in -2..2
     /\ TextOfSibling(g, x) # <<>>}

\* the labels strictly closer than 200 pixels to the edge, centre to centre,
\* and those of them no other is closer than
LabelsWithin(g, e) ==
  {l \in Elems(g) :
     /\ g[l].cls \cap {"edgeLabel", "messageText"} # {}
     /\ (g[l].x - g[e].x) * (g[l].x - g[e].x) + (g[l].y - g[e].y) * (g[l].y - g[e].y) < 40000}
NearestLabels(g, e) ==
  {l \in LabelsWithin(g, e) : \A m \in LabelsWithin(g, e) : Dist2(g, e, l) <= Dist2(g, e, m)}

\* what each strategy produces for the edge e: a text, or <<>> for nothing
Strategy1(g, e) ==
  IF Cardinality(LabelTextsIn(g, g[e].parent)) = 1 /\ Cardinality(LinesIn(g, g[e].parent)) = 1
  THEN trim(textContent(g, First(LabelTextsIn(g, g[e].parent))))
  ELSE <<>>
Strategy2(g, e) ==
  IF NearSiblings(g, e) = {} THEN <<>> ELSE TextOfSibling(g, First(NearSiblings(g, e)))
Strategy3(g, e) ==
  IF LabelsWithin(g, e) = {} THEN <<>> ELSE trim(textContent(g, First(NearestLabels(g, e))))

\* C17: findEdgeLabel returns what the first of its three strategies that
\* produces a text produces: (1) the one label of a parent that holds
\* exactly one label and one connecting line, (2) a label-classed sibling at
\* most 2 positions before or after the edge among the children of the
\* parent, (3) the label whose centre is nearest to the centre of the edge,
\* when strictly closer than 200 pixels; no label when none produces a text.
C17_EdgeLabel ==
  (arg.fn = "findEdgeLabel" /\ ret.called)
    => LET g == arg.g
           e == arg.element
       IN ret.value =
            IF Strategy1(g, e) # <<>> THEN Some(Strategy1(g, e))
            ELSE IF Strategy2(g, e) # <<>> THEN Some(Strategy2(g, e))
            ELSE IF Strategy3(g, e) # <<>> THEN Some(Strategy3(g, e))
            ELSE UNDEFINED

\* findEdgeLabel was called on an edge whose parent holds several labels,
\* none of them within 2 positions, and returned the nearest label, a label
\* at 200 pixels left aside
C17_ThirdStrategy ==
  /\ arg.fn = "findEdgeLabel" /\ ret.called
  /\ Cardinality(LabelTextsIn(arg.g, arg.g[arg.element].parent)) > 1
  /\ Strategy1(arg.g, arg.element) = <<>>
  /\ Strategy2(arg.g, arg.element) = <<>>
  /\ \E l \in Elems(arg.g) :
       "edgeLabel" \in arg.g[l].cls /\ Dist2(arg.g, arg.element, l) = 40000
  /\ ret.value = Some(<<"B">>)

(***************************************************************************)
(* Properties of the renders.                                              *)
(***************************************************************************)
\* a render in flight ends with the rejection of the layout engine
RenderFails ==
  \E i \in DOMAIN pending :
    Rendered(pending[i]).svg = "error" /\ pending' = Remove(pending, i)

\* C13: when the layout engine rejects a source, the render ends with the
\* error and sets nothing: no graphic of the rejected source is shown, and
\* the graphic rendered before, its image mappings and its loops stay as
\* they are.
C13_RejectKeepsGraphic ==
  [][RenderFails => (svgContent' = svgContent /\ imageMappings' = imageMappings
                     /\ dom' = dom /\ loops' = loops)]_vars

\* the render of a rejected chart has ended while an earlier graphic is shown
C13_RejectedAfterRender ==
  /\ mounted /\ pending = <<>> /\ props.chart = "bad"
  /\ svgContent # "" /\ dom.gid = svgContent

(***************************************************************************)
(* Properties of the setup effect.                                         *)
(***************************************************************************)
\* the classification tags of the graphic v are on d
Classified(v, d) ==
  /\ \A e \in v.nodeShapes : "animated-node" \in d.cls[e]
  /\ \A e \in SeqToSet(v.edges) : "animated-edge" \in d.cls[e]
  /\ \A e \in v.labels : "animated-label" \in d.cls[e]

\* C22: when a new graphic becomes available the setup runs classify, theme,
\* wire interactivity, start particles in that order: the graphic handed to
\* applyCustomTheme and the one handed to setupInteractivity carry the
\* classification tags already.
C22_ClassifiedFirst ==
  (mounted /\ svgContent # "")
    => LET v == Queries[svgContent]
       IN /\ Classified(v, GraphicAtTheme(v, imageMappings, FreshDom(svgContent)))
          /\ Classified(v, GraphicAtWiring(props, v, imageMappings, FreshDom(svgContent)))

\* C23: in the displayed graphic the refX of every arrowhead marker has been
\* shifted back exactly once, however many times the setup has run on it.
C23_ShiftedOnce ==
  Displayed => \A e \in Queries[dom.gid].arrowMarkers : dom.refx[e] = 1

\* C24: the classifier is idempotent: run once more on the displayed graphic,
\* a second run right after it leaves the graphic as the first run left it
\* (same tags on the same elements, nothing added a second time).
C24_ClassifierIdempotent ==
  Displayed =>
    LET v == Queries[dom.gid]
        once == enhanceSVG(v, dom, 0)
    IN enhanceSVG(v, once, 0) = once

\* C25: the displayed graphic holds at most one particle layer, and the
\* particles in it are those of a loop whose cleanup has not been called.
C25_OneLiveLayer ==
  Displayed =>
    /\ Len(dom.layers) <= 1
    /\ \A k \in DOMAIN dom.layers :
         dom.layers[k] # 0 => ~loops[dom.layers[k]].cancelled

(***************************************************************************)
(* Properties of one update of a particle.                                 *)
(***************************************************************************)
\* the elapsed loop time of the call, and the start of the particle's window
\* on the loop timeline
Elapsed == (arg.currentTime - arg.sequenceStartTime) % arg.totalSequenceDuration
WindowStartOfCall == arg.animation.startTime - arg.sequenceStartTime

\* the call has returned, and the elapsed loop time lies in the window
Updated == arg.fn = "updateParticlePosition" /\ ret.called
InsideWindow ==
  WindowStartOfCall <= Elapsed /\ Elapsed < WindowStartOfCall + arg.animation.duration

\* C27: a tick whose elapsed loop time lies outside the window of a particle
\* sets the opacity of the particle to 0 and leaves the position of every
\* circle as it was.
C27_HiddenInPlace ==
  (Updated /\ ~InsideWindow) =>
    /\ ret.value[arg.animation.element].opacity = <<0, 1>>
    /\ \A c \in DOMAIN arg.circles : ret.value[c].cx = arg.circles[c].cx

\* a particle that an earlier frame had moved and shown, hidden by the call
C27_HiddenAfterMove ==
  /\ Updated /\ ~InsideWindow
  /\ arg.circles[arg.animation.element].cx # Origin
  /\ arg.circles[arg.animation.element].opacity # <<0, 1>>

FracEq(o, n, m) == o[1] * m = n * o[2]
FracLeq(o, r) == o[1] * r[2] <= r[1] * o[2]

\* C29: the opacity of the progress p / d is (p / d) / 0.15 below 0.15, 1
\* from 0.15 to 0.85 and (1 - p / d) / 0.15 above 0.85; it is 0 at 0 and at
\* 1, and 1 at 0.15, 0.5 and 0.85; it lies in [0, 1], does not decrease up
\* to 0.15 and does not increase from 0.85 on.
C29_Trapezoid ==
  (arg.fn = "calculateOpacity" /\ ret.called) =>
    LET p == arg.p
        q == arg.q
        d == arg.d
        o == ret.value[1]
        oq == ret.value[2]
    IN /\ o[2] > 0
       /\ 100 * p < 15 * d => FracEq(o, 100 * p, 15 * d)
       /\ (15 * d <= 100 * p /\ 100 * p <= 85 * d) => FracEq(o, 1, 1)
       /\ 100 * p > 85 * d => FracEq(o, 100 * (d - p), 15 * d)
       /\ (p = 0 \/ p = d) => FracEq(o, 0, 1)
       /\ (100 * p = 15 * d \/ 2 * p = d \/ 100 * p = 85 * d) => FracEq(o, 1, 1)
       /\ FracLeq(<<0, 1>>, o) /\ FracLeq(o, <<1, 1>>)
       /\ (p <= q /\ 100 * q <= 15 * d) => FracLeq(o, oq)
       /\ (100 * p >= 85 * d /\ p <= q) => FracLeq(oq, o)

\* the opacities of the end of the fade-in and of a progress in the fade-out
C29_PlateauAndFadeOut ==
  /\ arg.fn = "calculateOpacity" /\ ret.called
  /\ 100 * arg.p = 15 * arg.d
  /\ 100 * arg.q > 85 * arg.d /\ arg.q < arg.d
  /\ FracEq(ret.value[1], 1, 1)
  /\ ~FracEq(ret.value[2], 1, 1) /\ ~FracEq(ret.value[2], 0, 1)

(***************************************************************************)
(* Properties of findEdgePaths.                                            *)
(***************************************************************************)
\* the paths of g outside every node container and every marker
FreePaths(g) ==
  {e \in Elems(g) :
     /\ g[e].tag = "path"
     /\ \A a \in Anc(g, e) : "node" \notin g[a].cls /\ g[a].tag # "marker"}

\* C26: findEdgePaths returns the matches of the first selector of the list
\* that matches anything; when none matches it returns exactly the paths
\* that have no node container and no marker among their ancestors.
C26_FirstPatternOrFreePaths ==
  (arg.fn = "findEdgePaths" /\ ret.called) =>
    LET hits == {k \in 1..8 : EdgeSelector(arg.g, k) # {}}
    IN IF hits # {}
       THEN ret.value = InOrder(EdgeSelector(arg.g, First(hits)))
       ELSE ret.value = InOrder(FreePaths(arg.g))

\* C30: once no render is pending, the graphic and the image mappings on
\* display are those of the render of the current chart, whichever render
\* settled last.
C30_NewestRenderShown ==
  (mounted /\ pending = <<>> /\ Rendered(props.chart).svg # "error") =>
    /\ svgContent = Rendered(props.chart).svg
    /\ imageMappings = Rendered(props.chart).imageMappings

(***************************************************************************)
(* Properties of the theme.                                                *)
(***************************************************************************)
\* C14: a rendered graphic carries the style rules of the current theme
\* only: one injected style block when there is a theme, none when there is
\* none; the block of an earlier theme is gone.
C14_OneThemeBlock ==
  (mounted /\ svgContent # "")
    => dom.styles = IF props.theme = "none" THEN <<>> ELSE <<props.theme>>

(***************************************************************************)
(* Properties of the export.                                               *)
(***************************************************************************)
\* C11: whenever the promise of an export (PNG, JPG or SVG) is resolved, the
\* file download has been triggered; an export never resolves without a
\* file, a failed encoding of the canvas included.
C11_ResolvedWithFile == exp.promise = "resolved" => exp.downloads >= 1

\* an image of the clone whose conversion rejected
FailedImages == {k \in DOMAIN exp.images : exp.images[k].stage = "rejected"}

\* C12: no failure while fetching, reading or converting an image of the
\* clone makes the export reject: every image ends with a data URI or the
\* placeholder, and the conversion of none is rejected.
C12_ImageFailureNeverRejects == exp.promise = "rejected" => FailedImages = {}

\* C15: no step of an export, successful or not, changes the live graphic
\* or the particle loops (none is cancelled, none loses its queued frame):
\* the style block, the inlined images and the size go to the clone.
C15_ExportLeavesGraphic ==
  [][ExportStep => (dom' = dom /\ loops' = loops /\ cleanup' = cleanup)]_vars

\* an export stands at one of its awaits, and frames have moved the circles
\* of the live graphic on from where the clone holds them
C15_FramesDuringExport ==
  /\ exp.pc \in {"inlining", "loading"}
  /\ \E k \in DOMAIN exp.svgClone.particles :
       LET n == exp.svgClone.dom.layers[k]
       IN n # 0 /\ loops[n].queued # 0 /\ loops[n].circles # exp.svgClone.particles[k]

=============================================================================
